---- MODULE Spec2Model ----
(***************************************************************************)
(* ConsoleFormatter (src/src/formatters/ConsoleFormatter.ts): the          *)
(* asynchronous factory from(), the four renderings, and the stack         *)
(* renderer.                                                               *)
(*                                                                         *)
(* A JavaScript string that may hold newlines is modelled as the sequence  *)
(* of its lines (what split('\n') returns), so that join('\n') is the      *)
(* concatenation of those sequences and the empty string is <<"">>.        *)
(* A call that may raise returns a record [thrown, error, value].          *)
(***************************************************************************)
EXTENDS Integers, Sequences, FiniteSets, TLC

\* ------------------------------------------------------------------ bounds
MaxFrames == 52
MaxAsync == 2
MaxArgs == 2
MaxInvocations == 3
MaxChain == 4
MaxTimeout == 30

\* ------------------------------------------------------- program constants
STACK_TRACE_MAX_LINES == 50
separatorLineLength == 40
BODY_CONTEXT_SIZE_LIMIT == 10000

\* ------------------------------------------------------------ value shapes
None == [present |-> FALSE]

Ok(v) == [thrown |-> FALSE, error |-> "", value |-> v]
Throw(e, v) == [thrown |-> TRUE, error |-> e, value |-> v]

Min(a, b) == IF a < b THEN a ELSE b

MainUrl == "main.js"
VendorUrl == "./node_modules/some-third-party-package/lib/index.js"

Frame(name, url, line, column) ==
  [hasName |-> TRUE, name |-> name, url |-> url, line |-> line,
   column |-> column, uiSourceCode |-> ""]

AnonymousFrame(url, line, column) ==
  [hasName |-> FALSE, name |-> "", url |-> url, line |-> line,
   column |-> column, uiSourceCode |-> ""]

ResolvedFrame(name, ui, line, column) ==
  [hasName |-> TRUE, name |-> name, url |-> "", line |-> line,
   column |-> column, uiSourceCode |-> ui]

AsyncFragment(hasDescription, description, frames) ==
  [hasDescription |-> hasDescription, description |-> description, frames |-> frames]

StackTrace(syncFrames, asyncFragments) ==
  [present |-> TRUE, syncFragment |-> [frames |-> syncFrames],
   asyncFragments |-> asyncFragments]

SymbolizedError(message, stackTrace, cause) ==
  [present |-> TRUE, message |-> message, stackTrace |-> stackTrace, cause |-> cause]

\* An IgnoreCheck: the test predicate (frame.url is one of urls), or the
\* default closure over the ignore-list manager.
TestingIgnore(urls) == [kind |-> "testing", manager |-> FALSE, urls |-> urls, uis |-> {}]
ManagerIgnore(manager, urls, uis) ==
  [kind |-> "manager", manager |-> manager, urls |-> urls, uis |-> uis]

IsIgnored(check, frame) ==
  IF check.kind = "testing" THEN frame.url \in check.urls
  ELSE IF ~check.manager THEN FALSE
  ELSE IF frame.uiSourceCode # "" THEN frame.uiSourceCode \in check.uis
  ELSE IF frame.url # "" THEN frame.url \in check.urls
  ELSE FALSE

\* ---------------------------------------------------------- stack renderer
NOTE_LINE == "Note: line and column numbers use 1-based indexing"

\* UILocation.linkText(skipTrim = false, showColumnNumber = true) of
\* uiSourceCode.uiLocation(line, column): the location formatter shows
\* 1-based numbers.
linkText(ui, line, column) ==
  ui \o ":" \o ToString(line + 1) \o ":" \o ToString(column + 1)

formatFrame(frame) ==
  LET head == "at " \o (IF frame.hasName THEN frame.name ELSE "<anonymous>")
  IN IF frame.uiSourceCode # ""
       THEN head \o " (" \o linkText(frame.uiSourceCode, frame.line, frame.column) \o ")"
     ELSE IF frame.url # ""
       THEN head \o " (" \o frame.url \o ":" \o ToString(frame.line) \o ":"
                 \o ToString(frame.column) \o ")"
     ELSE head

MapFrames(frames) == [i \in 1..Len(frames) |-> formatFrame(frames[i])]

formatFragment(fragment, isIgnored) ==
  MapFrames(SelectSeq(fragment.frames, LAMBDA f : ~IsIgnored(isIgnored, f)))

\* String.prototype.repeat: a negative count raises a RangeError.
RECURSIVE RepeatString(_, _)
RepeatString(s, n) == IF n <= 0 THEN "" ELSE s \o RepeatString(s, n - 1)

repeat(s, n) ==
  IF n < 0 THEN Throw("RangeError", "") ELSE Ok(RepeatString(s, n))

\* Two fallible line lists in evaluation order: the first raise wins.
AppendResults(first, second) ==
  IF first.thrown THEN first
  ELSE IF second.thrown THEN second
  ELSE Ok(first.value \o second.value)

\* Lines 319-322: the banner and the frames under it.
Separator(prefix, dashes, formattedFrames) ==
  IF dashes.thrown THEN Throw(dashes.error, <<>>)
  ELSE Ok(<<prefix \o dashes.value>> \o formattedFrames)

SeparatorPrefix(fragment) ==
  "--- " \o (IF fragment.hasDescription /\ fragment.description # ""
               THEN fragment.description ELSE "async") \o " "

AsyncLines(fragment, formattedFrames) ==
  IF Len(formattedFrames) = 0 THEN Ok(<<>>)
  ELSE Separator(SeparatorPrefix(fragment),
                 repeat("-", separatorLineLength - Len(SeparatorPrefix(fragment))),
                 formattedFrames)

formatAsyncFragment(fragment, isIgnored) ==
  AsyncLines(fragment, formatFragment(fragment, isIgnored))

\* asyncFragments.map(item => formatAsyncFragment(item, formatter)).flat()
RECURSIVE FlatMapAsync(_, _)
RECURSIVE FlatMapAsyncReversed(_, _)
\* Mutant of FlatMapAsync: the last fragment's lines come first.
FlatMapAsyncReversed(fragments, isIgnored) ==
  IF Len(fragments) = 0 THEN Ok(<<>>)
  ELSE AppendResults(FlatMapAsyncReversed(Tail(fragments), isIgnored),
                     formatAsyncFragment(Head(fragments), isIgnored))

FlatMapAsync(fragments, isIgnored) ==
  IF Len(fragments) = 0 THEN Ok(<<>>)
  ELSE AppendResults(formatAsyncFragment(Head(fragments), isIgnored),
                     FlatMapAsync(Tail(fragments), isIgnored))

RECURSIVE formatStackTraceInner(_, _, _)
RECURSIVE formatCause(_, _)

formatStackTraceInner(stackTrace, cause, isIgnored) ==
  IF ~stackTrace.present THEN Ok(<<>>)
  ELSE AppendResults(
         AppendResults(Ok(formatFragment(stackTrace.syncFragment, isIgnored)),
                       FlatMapAsync(stackTrace.asyncFragments, isIgnored)),
         formatCause(cause, isIgnored))

formatCause(cause, isIgnored) ==
  IF ~cause.present THEN Ok(<<>>)
  ELSE AppendResults(Ok(<<"Caused by: " \o cause.message>>),
                     formatStackTraceInner(cause.stackTrace, cause.cause, isIgnored))

NonEmpty(lines) == SelectSeq(lines, LAMBDA l : l # "")

\* Mutant of Truncated: the remainder counts from the last line shown.
TruncatedOffByOne(lines) ==
  LET includedLines == SubSeq(lines, 1, Min(Len(lines), STACK_TRACE_MAX_LINES))
      reminderCount == Len(lines) - Len(includedLines) + 1
  IN NonEmpty(includedLines
        \o <<IF reminderCount > 1
               THEN "... and " \o ToString(reminderCount) \o " more frames"
               ELSE "">>
        \o <<NOTE_LINE>>)

\* Lines 272-281, on the lines formatStackTraceInner returned.
Truncated(lines) ==
  LET includedLines == SubSeq(lines, 1, Min(Len(lines), STACK_TRACE_MAX_LINES))
      reminderCount == Len(lines) - Len(includedLines)
  IN NonEmpty(includedLines
        \o <<IF reminderCount > 0
               THEN "... and " \o ToString(reminderCount) \o " more frames"
               ELSE "">>
        \o <<NOTE_LINE>>)

TruncatedResult(lines) == IF lines.thrown THEN lines ELSE Ok(Truncated(lines.value))

formatStackTrace(stackTrace, cause, isIgnored) ==
  TruncatedResult(formatStackTraceInner(stackTrace, cause, isIgnored))

\* ------------------------------------------------------------ the facade
\* Values an argument can resolve to.
StringValue(s) == [tag |-> "string", s |-> s]
NumberValue(n) == [tag |-> "number", n |-> n]
NullValue == [tag |-> "null"]
ObjectValue(key, n) == [tag |-> "object", key |-> key, n |-> n]
ErrorValue(err) == [tag |-> "error", error |-> err]

EmptyText == <<"">>

RECURSIVE Concat(_)
Concat(texts) == IF Len(texts) = 0 THEN <<>> ELSE Head(texts) \o Concat(Tail(texts))

\* Mutant of JoinNonEmpty: an empty string is joined like any other, so it
\* leaves an empty line.
JoinKeepingEmpty(texts) == IF Len(texts) = 0 THEN EmptyText ELSE Concat(texts)

\* [...].filter(line => !!line).join('\n') over strings held as line sequences
JoinNonEmpty(texts) ==
  LET kept == SelectSeq(texts, LAMBDA t : t # EmptyText)
  IN IF Len(kept) = 0 THEN EmptyText ELSE Concat(kept)

\* `${prefix}${text}`
Prepend(prefix, text) == <<prefix \o Head(text)>> \o Tail(text)

\* JSON.stringify(arg) for typeof arg === 'object', String(arg) otherwise
stringify(arg) ==
  IF arg.tag = "string" THEN arg.s
  ELSE IF arg.tag = "number" THEN ToString(arg.n)
  ELSE IF arg.tag = "null" THEN "null"
  ELSE "{\"" \o arg.key \o "\":" \o ToString(arg.n) \o "}"

\* Lines 252-259: [message, stack].filter(line => !!line).join('\n')
ErrorText(message, stack) ==
  IF stack.thrown THEN Throw(stack.error, EmptyText)
  ELSE Ok(JoinNonEmpty(<< <<message>>, stack.value >>))

\* Mutant of formatArg: an error argument's stack is rendered with a predicate
\* of its own, which ignores nothing.
formatArgUnfiltered(arg, isIgnored) ==
  IF arg.tag = "error"
    THEN ErrorText(arg.error.message,
                   IF arg.error.stackTrace.present
                     THEN formatStackTrace(arg.error.stackTrace, arg.error.cause,
                                           TestingIgnore({}))
                     ELSE Ok(EmptyText))
  ELSE Ok(<<stringify(arg)>>)

formatArg(arg, isIgnored) ==
  IF arg.tag = "error"
    THEN ErrorText(arg.error.message,
                   IF arg.error.stackTrace.present
                     THEN formatStackTrace(arg.error.stackTrace, arg.error.cause, isIgnored)
                     ELSE Ok(EmptyText))
  ELSE Ok(<<stringify(arg)>>)

\* Mutant of getArgs: the first argument is kept when the text is empty.
getArgsKeepFirst(this) ==
  IF Len(this.resolvedArgs) > 0 THEN this.resolvedArgs ELSE <<>>

getArgs(this) ==
  IF Len(this.resolvedArgs) > 0
    THEN IF this.text = "" THEN Tail(this.resolvedArgs) ELSE this.resolvedArgs
  ELSE <<>>

toJSON(this) ==
  [type |-> this.type, text |-> this.text, argsCount |-> this.argCount, id |-> this.id]

convertConsoleMessageConciseToString(msg) ==
  "msgid=" \o ToString(msg.id) \o " [" \o msg.type \o "] " \o msg.text
    \o " (" \o ToString(msg.argsCount) \o " args)"

toString(this) == convertConsoleMessageConciseToString(toJSON(this))

\* Lines 205-214, with args and stackTrace already evaluated (in that order).
Detailed(this, formatted, stack) ==
  IF \E i \in 1..Len(formatted) : formatted[i].thrown
    THEN Throw("RangeError", None)
  ELSE IF stack.thrown THEN Throw(stack.error, None)
  ELSE Ok([id |-> this.id, type |-> this.type, text |-> this.text,
           argsCount |-> this.argCount,
           args |-> [i \in 1..Len(formatted) |-> formatted[i].value],
           stackTrace |-> [present |-> this.stack.present, value |-> stack.value]])

MapArgs(args, isIgnored) == [i \in 1..Len(args) |-> formatArg(args[i], isIgnored)]

toJSONDetailed(this) ==
  Detailed(this, MapArgs(getArgs(this), this.isIgnored),
           IF this.stack.present
             THEN formatStackTrace(this.stack, this.cause, this.isIgnored)
             ELSE Ok(EmptyText))

formatArgs(msg) ==
  IF Len(msg.args) = 0 THEN EmptyText
  ELSE <<"### Arguments">>
         \o Concat([k \in 1..Len(msg.args) |->
                      Prepend("Arg #" \o ToString(k - 1) \o ": ", msg.args[k])])

\* Mutant of convertConsoleMessageConciseDetailedToString: a stack trace that
\* shows no frame (the note alone) is left out.
convertHidesEmptyStack(msg) ==
  JoinNonEmpty(
    << <<"ID: " \o ToString(msg.id)>>,
       <<"Message: " \o msg.type \o "> " \o msg.text>>,
       formatArgs(msg) >>
    \o (IF msg.stackTrace.present /\ msg.stackTrace.value # <<NOTE_LINE>>
          THEN << <<"### Stack trace">>, msg.stackTrace.value >>
          ELSE <<>>))

convertConsoleMessageConciseDetailedToString(msg) ==
  JoinNonEmpty(
    << <<"ID: " \o ToString(msg.id)>>,
       <<"Message: " \o msg.type \o "> " \o msg.text>>,
       formatArgs(msg) >>
    \o (IF msg.stackTrace.present /\ msg.stackTrace.value # EmptyText
          THEN << <<"### Stack trace">>, msg.stackTrace.value >>
          ELSE <<>>))

DetailedString(json) ==
  IF json.thrown THEN Throw(json.error, EmptyText)
  ELSE Ok(convertConsoleMessageConciseDetailedToString(json.value))

toStringDetailed(this) == DetailedString(toJSONDetailed(this))

ConsoleFormatter(id, type, text, argCount, resolvedArgs, stack, cause, isIgnored) ==
  [present |-> TRUE, id |-> id, type |-> type, text |-> text, argCount |-> argCount,
   resolvedArgs |-> resolvedArgs, stack |-> stack, cause |-> cause,
   isIgnored |-> isIgnored]

\* ------------------------------------------------------------------ state
VARIABLES
  msg,        \* the record handed to from(): a console message or an UncaughtError
  options,    \* ConsoleFormatterOptions
  pc,         \* where from() is: start, awaitArgs, awaitStack, awaitFromDetails, done
  pending,    \* argument positions whose resolution is in flight
  results,    \* the Promise.all result array, by position
  log,        \* collaborator calls and settlements, in the order they happen
  formatter,  \* the ConsoleFormatter from() resolved to
  rendering,  \* the last rendering method called and what it returned
  rPc,        \* stack renderer applied to an input: input, rendered
  rStack, rCause, rIgnore,   \* the renderer's inputs
  rSync, rAsync, rLines, rOut,  \* formatFragment, formatAsyncFragment, inner, outer
  screenRecorder,  \* what context.getScreenRecorder() returns: null or {recorder, filePath}
  handlers,        \* the screencast tool invocations, by number
  calls,           \* page.screencast and recorder.stop calls, in the order made
  recorders,       \* how many recorders page.screencast has resolved to
  cStack, cErrors, \* formatStackTrace's stack, and the errors of its cause chain
  cPc,             \* the recursion under formatStackTrace: input, formatCause, returned
  cAt,             \* the error the next formatCause call is given (0: undefined)
  cDepth,          \* formatCause calls made with an error
  cLines, cOut,    \* the lines gathered so far, and what formatStackTrace returned
  tInput,          \* the timeout parameter as the caller gave it
  tPc,             \* timeoutSchema.timeout parsing it: input, validated, transformed, invalid
  tValue,          \* the value the schema has parsed it to
  nRequest,        \* the HTTPRequest given to NetworkFormatter.from()
  nOptions,        \* NetworkFormatterOptions
  nRun             \* that from() call: where it is, the instance's fields, its calls

fromVars == <<msg, options, pc, pending, results, log, formatter, rendering>>
renderVars == <<rPc, rStack, rCause, rIgnore, rSync, rAsync, rLines, rOut>>
screencastVars == <<screenRecorder, handlers, calls, recorders>>
causeVars == <<cStack, cErrors, cPc, cAt, cDepth, cLines, cOut>>
timeoutVars == <<tInput, tPc, tValue>>
networkVars == <<nRequest, nOptions, nRun>>
vars == <<msg, options, pc, pending, results, log, formatter, rendering,
          rPc, rStack, rCause, rIgnore, rSync, rAsync, rLines, rOut,
          screenRecorder, handlers, calls, recorders,
          cStack, cErrors, cPc, cAt, cDepth, cLines, cOut,
          tInput, tPc, tValue,
          nRequest, nOptions, nRun>>

\* ----------------------------------------------------------------- inputs
\* 36 characters: the banner prefix '--- <description> ' is then 41 long.
LongDescription == "console.createTask: hydrate-dashboar"

SmallStack ==
  StackTrace(<<Frame("foo", "foo.ts", 10, 2), Frame("doThings", VendorUrl, 200, 46)>>,
             <<AsyncFragment(TRUE, "setTimeout", <<Frame("schedule", "util.ts", 5, 2)>>)>>)

LongDescriptionStack ==
  StackTrace(<<Frame("foo", "foo.ts", 10, 2)>>,
             <<AsyncFragment(TRUE, LongDescription, <<Frame("run", "task.ts", 7, 0)>>)>>)

\* A stack whose frames all come from an ignore-listed script.
VendorStack ==
  StackTrace(<<Frame("doThings", VendorUrl, 200, 46)>>,
             <<AsyncFragment(TRUE, "await", <<Frame("doThings2", VendorUrl, 250, 12)>>)>>)

RootCause == SymbolizedError("Error: root", None, None)
SmallCause ==
  SymbolizedError("AppError: Compute failed",
                  StackTrace(<<Frame("compute", "lib.ts", 3, 1)>>, <<>>), RootCause)

\* A cause whose own stack could not be resolved, with a cause of its own.
StacklessCause == SymbolizedError("Error: wrapped", None, RootCause)

TypeErrorValue ==
  SymbolizedError("TypeError: Cannot read properties of undefined",
                  StackTrace(<<Frame("foo", "foo.ts", 10, 2), Frame("bar", "foo.ts", 20, 2)>>,
                             <<>>),
                  None)

\* An error whose stack, and whose cause's stack, have frames from an
\* ignore-listed script among their frames.
VendorCause ==
  SymbolizedError("AppError: Compute failed",
                  StackTrace(<<Frame("compute", "lib.ts", 3, 1),
                               Frame("doThings2", VendorUrl, 250, 12)>>, <<>>),
                  RootCause)

VendorErrorValue ==
  SymbolizedError("Error: request failed",
                  StackTrace(<<Frame("request", "api.ts", 14, 4),
                               Frame("doThings", VendorUrl, 200, 46)>>,
                             <<AsyncFragment(TRUE, "await",
                                             <<Frame("doThings2", VendorUrl, 250, 12),
                                               Frame("load", "api.ts", 30, 8)>>)>>),
                  VendorCause)

\* A raw argument handle: what remoteObject() describes, what jsonValue()
\* resolves to, and what SymbolizedError.fromError resolves to for an error.
RawArg(type, subtype, value, error) ==
  [type |-> type, subtype |-> subtype, value |-> value, error |-> error]

\* The handles a message can carry, in the order they appear in a call.
RawArgs ==
  << RawArg("string", "", StringValue("file.txt"), None),
     RawArg("string", "", StringValue("another file"), None),
     RawArg("object", "error", ObjectValue("stack", 0), TypeErrorValue) >>

RawArgPool == {RawArgs[i] : i \in 1..Len(RawArgs)}

RECURSIVE SeqsUpTo(_, _)
SeqsUpTo(S, n) ==
  IF n = 0 THEN {<<>>}
  ELSE LET shorter == SeqsUpTo(S, n - 1)
       IN shorter \cup {Append(q, x) : q \in {r \in shorter : Len(r) = n - 1}, x \in S}

\* msg.args(): up to n of the handles, each once, in their order.
ArgLists(S, n) ==
  {q \in SeqsUpTo(S, n) :
     \A i, j \in 1..Len(q) :
       i < j => \E a, b \in 1..Len(RawArgs) : a < b /\ RawArgs[a] = q[i] /\ RawArgs[b] = q[j]}

ConsoleMessages ==
  { [isUncaught |-> FALSE, type |-> m[1], text |-> m[2], args |-> a, message |-> ""] :
      m \in {<<"log", "">>, <<"log", "Processing file:">>, <<"error", "Oops">>},
      a \in ArgLists(RawArgPool, MaxArgs) }

UncaughtErrors ==
  { [isUncaught |-> TRUE, type |-> "", text |-> "", args |-> <<>>,
     message |-> "TypeError: Cannot read properties of undefined"] }

Present(v) == [present |-> TRUE, value |-> v]

ResolvedArgsOverrides ==
  { None, Present(<<>>),
    Present(<<StringValue("file.txt"), StringValue("another file")>>),
    Present(<<ErrorValue(VendorErrorValue), NumberValue(7)>>) }

OptionsFor(m) ==
  { [id |-> id, fetchDetailedData |-> fetch, devTools |-> dev,
     resolvedArgsForTesting |-> args, resolvedStackTraceForTesting |-> stack,
     resolvedCauseForTesting |-> cause, isIgnoredForTesting |-> ign] :
      id \in {1, 2}, fetch \in BOOLEAN, dev \in BOOLEAN,
      args \in (IF m.isUncaught THEN {None, Present(<<StringValue("file.txt")>>)}
                ELSE ResolvedArgsOverrides),
      stack \in {None, SmallStack},
      cause \in (IF m.isUncaught THEN {None, VendorCause} ELSE {None}),
      ign \in {None, Present({VendorUrl})} }

\* What the DevTools collaborators can answer.
StackPool == {SmallStack, LongDescriptionStack, VendorStack}
IgnoreListedUrls == {VendorUrl}

NotCalled == [method |-> "none"]
Call(op, i) == [op |-> op, i |-> i]

\* -------------------------------------------------------------------- from
\* Lines 81-103: the ignore predicate.
isIgnoredOf(o) ==
  IF o.isIgnoredForTesting.present
    THEN TestingIgnore(o.isIgnoredForTesting.value)
  ELSE ManagerIgnore(o.devTools, IgnoreListedUrls, {})

\* Mutant of Sentinel: the placeholder names the 1-based position.
SentinelOneBased(i) ==
  StringValue("<error: Argument " \o ToString(i + 1) \o " is no longer available>")

Sentinel(i) ==
  StringValue("<error: Argument " \o ToString(i) \o " is no longer available>")

PendingSlot == [tag |-> "pending"]

IsErrorObject(arg) == arg.type = "object" /\ arg.subtype = "error"

\* Mutant of Construct: argCount counts the resolved arguments only.
ConstructCountResolved(resolvedArgs, stack) ==
  ConsoleFormatter(options.id, msg.type, msg.text, Len(resolvedArgs),
                   resolvedArgs, stack, None, isIgnoredOf(options))

\* Lines 162-170: the constructor call that ends from() for a console message.
Construct(resolvedArgs, stack) ==
  ConsoleFormatter(options.id, msg.type, msg.text,
                   IF Len(resolvedArgs) # 0 THEN Len(resolvedArgs) ELSE Len(msg.args),
                   resolvedArgs, stack, None, isIgnoredOf(options))

\* Mutant of AfterArgs: the stack is constructed whenever devTools is given,
\* detail flag or not.
AfterArgsAlwaysStack(resolvedArgs, lg) ==
  /\ results' = resolvedArgs
  /\ pending' = {}
  /\ IF options.resolvedStackTraceForTesting.present
       THEN /\ formatter' = Construct(resolvedArgs, options.resolvedStackTraceForTesting)
            /\ pc' = "done"
            /\ log' = lg
     ELSE IF options.devTools
       THEN /\ pc' = "awaitStack"
            /\ log' = Append(lg, Call("createStackTraceForConsoleMessage", 0))
            /\ UNCHANGED formatter
     ELSE /\ formatter' = Construct(resolvedArgs, None)
          /\ pc' = "done"
          /\ log' = lg

\* Lines 151-170, run once resolvedArgs is known.
AfterArgs(resolvedArgs, lg) ==
  /\ results' = resolvedArgs
  /\ pending' = {}
  /\ IF options.resolvedStackTraceForTesting.present
       THEN /\ formatter' = Construct(resolvedArgs, options.resolvedStackTraceForTesting)
            /\ pc' = "done"
            /\ log' = lg
     ELSE IF options.fetchDetailedData /\ options.devTools
       THEN /\ pc' = "awaitStack"
            /\ log' = Append(lg, Call("createStackTraceForConsoleMessage", 0))
            /\ UNCHANGED formatter
     ELSE /\ formatter' = Construct(resolvedArgs, None)
          /\ pc' = "done"
          /\ log' = lg

\* The callback of msg.args().map up to its first await, for position i
\* (1-based here, i - 1 in the code): the calls it makes.
StartCalls(i, throws) ==
  IF i \in throws THEN <<Call("remoteObject", i), Call("threw", i)>>
  ELSE IF IsErrorObject(msg.args[i])
    THEN <<Call("remoteObject", i), Call("fromError", i)>>
  ELSE <<Call("remoteObject", i), Call("jsonValue", i)>>

\* Mutant of FanOutCalls: the stack constructor is issued with the arguments.
FanOutCallsWithStack(throws) ==
  Concat([i \in 1..Len(msg.args) |-> StartCalls(i, throws)])
    \o <<Call("createStackTraceForConsoleMessage", 0)>>

\* Mutant of FanOutCalls: one argument is resolved at a time, so only the
\* first argument's calls are made before from() waits.
FanOutCallsFirstOnly(throws) ==
  IF Len(msg.args) = 0 THEN <<>> ELSE StartCalls(1, throws)

\* Lines 128-147: msg.args().map(...) runs every callback up to its first
\* await before Promise.all is awaited.
FanOutCalls(throws) == Concat([i \in 1..Len(msg.args) |-> StartCalls(i, throws)])

\* from() up to its first await.
From ==
  /\ pc = "start"
  /\ UNCHANGED <<msg, options, rendering>>
  /\ UNCHANGED renderVars
  /\ UNCHANGED screencastVars
  /\ UNCHANGED causeVars
  /\ UNCHANGED timeoutVars
  /\ UNCHANGED networkVars
  /\ IF msg.isUncaught
       THEN /\ pc' = "awaitFromDetails"
            /\ log' = Append(log, Call("fromDetails", 0))
            /\ UNCHANGED <<pending, results, formatter>>
     ELSE IF options.resolvedArgsForTesting.present
       THEN AfterArgs(options.resolvedArgsForTesting.value, log)
     ELSE IF options.fetchDetailedData
       THEN \E throws \in SUBSET (1..Len(msg.args)) :
              /\ pending' = (1..Len(msg.args)) \ throws
              /\ results' = [i \in 1..Len(msg.args) |->
                               IF i \in throws THEN Sentinel(i - 1) ELSE PendingSlot]
              /\ log' = log \o FanOutCalls(throws)
              /\ pc' = "awaitArgs"
              /\ UNCHANGED formatter
     ELSE AfterArgs(<<>>, log)

\* One argument's resolution settles: fromError / jsonValue resolves or rejects.
Resolved(i) ==
  IF IsErrorObject(msg.args[i]) THEN ErrorValue(msg.args[i].error) ELSE msg.args[i].value

SettleValue(i, ok) == IF ok THEN Resolved(i) ELSE Sentinel(i - 1)

\* Mutant of StoreResult: results are gathered in completion order.
StoreResultInCompletionOrder(array, i, v) ==
  LET free == {j \in 1..Len(array) : array[j] = PendingSlot}
      first == CHOOSE j \in free : \A k \in free : j <= k
  IN [array EXCEPT ![first] = v]

StoreResult(array, i, v) == [array EXCEPT ![i] = v]

ArgSettle ==
  /\ pc = "awaitArgs"
  /\ \E i \in pending, ok \in BOOLEAN :
       /\ results' = StoreResult(results, i, SettleValue(i, ok))
       /\ pending' = pending \ {i}
       /\ log' = Append(log, Call(IF ok THEN "resolved" ELSE "rejected", i))
  /\ UNCHANGED <<msg, options, pc, formatter, rendering>>
  /\ UNCHANGED renderVars
  /\ UNCHANGED screencastVars
  /\ UNCHANGED causeVars
  /\ UNCHANGED timeoutVars
  /\ UNCHANGED networkVars

\* Promise.all resolves: from() resumes after line 149.
ArgsResolved ==
  /\ pc = "awaitArgs"
  /\ pending = {}
  /\ AfterArgs(results, log)
  /\ UNCHANGED <<msg, options, rendering>>
  /\ UNCHANGED renderVars
  /\ UNCHANGED screencastVars
  /\ UNCHANGED causeVars
  /\ UNCHANGED timeoutVars
  /\ UNCHANGED networkVars

\* createStackTraceForConsoleMessage resolves or rejects (lines 155-159).
\* Mutant of StackOutcome: a stack is kept although the constructor failed.
StackOutcomeKept(ok, stack) == stack

StackOutcome(ok, stack) == IF ok THEN stack ELSE None

StackSettle ==
  /\ pc = "awaitStack"
  /\ \E ok \in BOOLEAN, stack \in StackPool :
       /\ formatter' = Construct(results, StackOutcome(ok, stack))
       /\ log' = Append(log, Call(IF ok THEN "stackResolved" ELSE "stackRejected", 0))
  /\ pc' = "done"
  /\ UNCHANGED <<msg, options, pending, results, rendering>>
  /\ UNCHANGED renderVars
  /\ UNCHANGED screencastVars
  /\ UNCHANGED causeVars
  /\ UNCHANGED timeoutVars
  /\ UNCHANGED networkVars

\* SymbolizedError.fromDetails: overrides verbatim; without them a stack and
\* a cause only when detail is requested, each best-effort.
fromDetails(m, o) ==
  { SymbolizedError(m.message, stack, cause) :
      stack \in (IF o.resolvedStackTraceForTesting.present
                   THEN {o.resolvedStackTraceForTesting}
                 ELSE IF o.fetchDetailedData /\ o.devTools
                   THEN StackPool \cup {None}
                 ELSE {None}),
      cause \in (IF o.resolvedCauseForTesting.present
                   THEN {o.resolvedCauseForTesting}
                 ELSE IF o.fetchDetailedData /\ o.devTools
                   THEN {None, RootCause}
                 ELSE {None}) }

\* What SymbolizedError.fromDetails resolved to, as a log entry.
Symbolized(error) == [op |-> "symbolized", i |-> 0, error |-> error]

\* Mutant of ConstructUncaught: the override array is taken as the arguments.
ConstructUncaughtWithArgs(error) ==
  ConsoleFormatter(options.id, "error", error.message,
                   IF options.resolvedArgsForTesting.present
                     THEN Len(options.resolvedArgsForTesting.value) ELSE 0,
                   IF options.resolvedArgsForTesting.present
                     THEN options.resolvedArgsForTesting.value ELSE <<>>,
                   error.stackTrace, error.cause, isIgnoredOf(options))

\* Lines 114-121: argCount and resolvedArgs are not passed, so the
\* constructor's defaults 0 and [] apply.
ConstructUncaught(error) ==
  ConsoleFormatter(options.id, "error", error.message, 0, <<>>,
                   error.stackTrace, error.cause, isIgnoredOf(options))

\* Lines 105-122.
FromDetailsSettle ==
  /\ pc = "awaitFromDetails"
  /\ \E error \in fromDetails(msg, options) :
       /\ formatter' = ConstructUncaught(error)
       /\ log' = Append(log, Symbolized(error))
  /\ pc' = "done"
  /\ UNCHANGED <<msg, options, pending, results, rendering>>
  /\ UNCHANGED renderVars
  /\ UNCHANGED screencastVars
  /\ UNCHANGED causeVars
  /\ UNCHANGED timeoutVars
  /\ UNCHANGED networkVars

\* The four rendering methods, called on the resolved formatter.
Rendered(method, result) == [method |-> method, result |-> result]

CallToString ==
  /\ pc = "done"
  /\ rendering' = Rendered("toString", Ok(toString(formatter)))
  /\ UNCHANGED <<msg, options, pc, pending, results, log, formatter>>
  /\ UNCHANGED renderVars
  /\ UNCHANGED screencastVars
  /\ UNCHANGED causeVars
  /\ UNCHANGED timeoutVars
  /\ UNCHANGED networkVars

CallToJSON ==
  /\ pc = "done"
  /\ rendering' = Rendered("toJSON", Ok(toJSON(formatter)))
  /\ UNCHANGED <<msg, options, pc, pending, results, log, formatter>>
  /\ UNCHANGED renderVars
  /\ UNCHANGED screencastVars
  /\ UNCHANGED causeVars
  /\ UNCHANGED timeoutVars
  /\ UNCHANGED networkVars

\* Mutant of StoredArgsAfterGetArgs: shift() acts on the stored array.
StoredArgsShiftedInPlace(this) == getArgs(this)

\* Line 185: #getArgs copies #resolvedArgs and shifts the copy, so the stored
\* array is what it was.
StoredArgsAfterGetArgs(this) == this.resolvedArgs

\* The formatter once #getArgs has run.
AfterGetArgs(this) == [this EXCEPT !.resolvedArgs = StoredArgsAfterGetArgs(this)]

\* Line 126: for a console message the stored array is the caller's override
\* array itself, so whatever happens to one happens to the other.
OverrideAfterGetArgs(o, this) ==
  IF ~msg.isUncaught /\ o.resolvedArgsForTesting.present
    THEN [o EXCEPT !.resolvedArgsForTesting = Present(StoredArgsAfterGetArgs(this))]
  ELSE o

CallToStringDetailed ==
  /\ pc = "done"
  /\ rendering' = Rendered("toStringDetailed", toStringDetailed(formatter))
  /\ formatter' = AfterGetArgs(formatter)
  /\ options' = OverrideAfterGetArgs(options, formatter)
  /\ UNCHANGED <<msg, pc, pending, results, log>>
  /\ UNCHANGED renderVars
  /\ UNCHANGED screencastVars
  /\ UNCHANGED causeVars
  /\ UNCHANGED timeoutVars
  /\ UNCHANGED networkVars

CallToJSONDetailed ==
  /\ pc = "done"
  /\ rendering' = Rendered("toJSONDetailed", toJSONDetailed(formatter))
  /\ formatter' = AfterGetArgs(formatter)
  /\ options' = OverrideAfterGetArgs(options, formatter)
  /\ UNCHANGED <<msg, pc, pending, results, log>>
  /\ UNCHANGED renderVars
  /\ UNCHANGED screencastVars
  /\ UNCHANGED causeVars
  /\ UNCHANGED timeoutVars
  /\ UNCHANGED networkVars

\* ------------------------------------------- screencast tools: value shapes
\* A file path: absolute or relative, and its segments.
Path(absolute, segments) == [present |-> TRUE, absolute |-> absolute, segments |-> segments]

\* An Error object with its message, or another thrown value; a message is
\* held as its parts, so that includes() is membership of a part.
Error(message) == [present |-> TRUE, isError |-> TRUE, message |-> message]
ThrownValue(text) == [present |-> TRUE, isError |-> FALSE, text |-> text]

\* {recorder, filePath} as stored in the context.
RecorderData(recorder, filePath) ==
  [present |-> TRUE, recorder |-> recorder, filePath |-> filePath]

\* One invocation of a tool handler: where it is, what it read and appended,
\* and the error its promise rejected with.
IdleHandler ==
  [tool |-> "none", pc |-> "idle", resolvedPath |-> None, data |-> None,
   lines |-> <<>>, error |-> None]

ScreencastIdle ==
  /\ screenRecorder = None
  /\ handlers = <<>>
  /\ calls = <<>>
  /\ recorders = 0

CauseIdle ==
  /\ cStack = None /\ cErrors = <<>> /\ cPc = "idle" /\ cAt = 0 /\ cDepth = 0
  /\ cLines = <<>> /\ cOut = <<>>

TimeoutIdle == tInput = None /\ tPc = "idle" /\ tValue = None

\* A NetworkFormatter as its constructor leaves it (lines 48-56).
NewNetworkFormatter ==
  [requestBody |-> None, responseBody |-> None,
   requestBodyFilePath |-> None, responseBodyFilePath |-> None]

\* A from() call: its position, the instance, the local data, the error it
\* rejected with, and the collaborator calls that have settled.
NetworkRun(at) ==
  [pc |-> at, this |-> NewNetworkFormatter, data |-> None, error |-> None, calls |-> <<>>]

NetworkIdle == nRequest = None /\ nOptions = None /\ nRun = NetworkRun("idle")

RenderIdle ==
  /\ rPc = "idle"
  /\ rStack = None /\ rCause = None /\ rIgnore = TestingIgnore({})
  /\ rSync = <<>> /\ rAsync = <<>> /\ rLines = Ok(<<>>) /\ rOut = Ok(<<>>)

Init ==
  /\ msg \in ConsoleMessages \cup UncaughtErrors
  /\ options \in OptionsFor(msg)
  /\ pc = "start"
  /\ pending = {}
  /\ results = <<>>
  /\ log = <<>>
  /\ formatter = None
  /\ rendering = NotCalled
  /\ RenderIdle
  /\ ScreencastIdle
  /\ CauseIdle
  /\ TimeoutIdle
  /\ NetworkIdle

FromIdle ==
  /\ msg = None /\ options = None /\ pc = "idle" /\ pending = {}
  /\ results = <<>> /\ log = <<>> /\ formatter = None /\ rendering = NotCalled

Next ==
  \/ From
  \/ ArgSettle
  \/ ArgsResolved
  \/ StackSettle
  \/ FromDetailsSettle
  \/ CallToString
  \/ CallToJSON
  \/ CallToStringDetailed
  \/ CallToJSONDetailed

Spec == Init /\ [][Next]_vars

\* ------------------------------------------- the stack renderer on its own
\* The test's frames: fn0, fn1, ... with line = column = index; every second
\* one from a vendored package when the pattern is "mixed".
SyncFrames(n, pattern) ==
  [i \in 1..n |->
     Frame("fn" \o ToString(i - 1),
           IF pattern = "mixed" /\ i % 2 = 0 THEN VendorUrl ELSE MainUrl,
           i - 1, i - 1)]

AsyncPool ==
  { AsyncFragment(TRUE, "setTimeout", <<Frame("schedule", "util.ts", 5, 2)>>),
    AsyncFragment(TRUE, "await",
                  <<Frame("doThings", VendorUrl, 200, 46),
                    Frame("doThings2", VendorUrl, 250, 12)>>),
    AsyncFragment(FALSE, "",
                  <<AnonymousFrame(MainUrl, 0, 0), ResolvedFrame("bar", "foo.ts", 20, 2),
                    Frame("doThings", VendorUrl, 200, 46)>>),
    AsyncFragment(TRUE, LongDescription, <<Frame("run", "task.ts", 7, 0)>>) }

\* How many synchronous frames a stack has: a few, or about as many as the
\* line limit.
FrameCounts == (0..3) \cup ((STACK_TRACE_MAX_LINES - 4)..MaxFrames)

RenderStacks ==
  { StackTrace(SyncFrames(n, pattern), async) :
      n \in FrameCounts, pattern \in {"plain", "mixed"},
      async \in SeqsUpTo(AsyncPool, MaxAsync) }

RenderCauses == {None, RootCause, SmallCause, StacklessCause}

AllUrls == {MainUrl, VendorUrl, "util.ts", "task.ts", "foo.ts", "lib.ts", ""}

RenderIgnores ==
  { TestingIgnore({}), TestingIgnore({VendorUrl}), TestingIgnore(AllUrls),
    ManagerIgnore(TRUE, {VendorUrl}, {"foo.ts"}) }

RenderInit ==
  /\ FromIdle
  /\ rPc = "input"
  /\ rStack \in RenderStacks
  /\ rCause \in RenderCauses
  /\ rIgnore \in RenderIgnores
  /\ rSync = <<>> /\ rAsync = <<>> /\ rLines = Ok(<<>>) /\ rOut = Ok(<<>>)
  /\ ScreencastIdle
  /\ CauseIdle
  /\ TimeoutIdle
  /\ NetworkIdle

\* formatFragment on the synchronous fragment, formatAsyncFragment on each
\* async fragment.
RenderFragments ==
  /\ rPc = "input"
  /\ rSync' = formatFragment(rStack.syncFragment, rIgnore)
  /\ rAsync' = [k \in 1..Len(rStack.asyncFragments) |->
                  formatAsyncFragment(rStack.asyncFragments[k], rIgnore)]
  /\ rPc' = "fragments"
  /\ UNCHANGED <<rStack, rCause, rIgnore, rLines, rOut>>
  /\ UNCHANGED fromVars
  /\ UNCHANGED screencastVars
  /\ UNCHANGED causeVars
  /\ UNCHANGED timeoutVars
  /\ UNCHANGED networkVars

\* formatStackTrace on the whole stack and its cause.
RenderStack ==
  /\ rPc = "fragments"
  /\ rLines' = formatStackTraceInner(rStack, rCause, rIgnore)
  /\ rOut' = formatStackTrace(rStack, rCause, rIgnore)
  /\ rPc' = "rendered"
  /\ UNCHANGED <<rStack, rCause, rIgnore, rSync, rAsync>>
  /\ UNCHANGED fromVars
  /\ UNCHANGED screencastVars
  /\ UNCHANGED causeVars
  /\ UNCHANGED timeoutVars
  /\ UNCHANGED networkVars

RenderNext ==
  \/ RenderFragments
  \/ RenderStack

SpecRender == RenderInit /\ [][RenderNext]_vars

\* ------------------------------ the recursion over a cause chain, call by call
\* An error of a cause chain as an object that refers to its cause: cause is
\* the position of the cause among the chain's errors, 0 for undefined.
ChainError(message, stackTrace, cause) ==
  [message |-> message, stackTrace |-> stackTrace, cause |-> cause]

OneFrameStack == StackTrace(<<Frame("compute", "lib.ts", 3, 1)>>, <<>>)
DeepStack == StackTrace(SyncFrames(30, "plain"), <<>>)
ErrorStacks == {None, OneFrameStack, DeepStack}

\* Chains of k errors, each the cause of the one before; the last one has no
\* cause (back = 0) or has one of the chain's errors as its cause.
CauseChains ==
  UNION { { [i \in 1..k |->
               ChainError("Error: e" \o ToString(i), st[i],
                          IF i < k THEN i + 1 ELSE back)] :
              st \in [1..k -> ErrorStacks], back \in 0..k } :
          k \in 0..MaxChain }

\* The calls followed before the model stops following a chain that never ends.
MaxCalls == 2 * MaxChain + 1

CauseIgnore == TestingIgnore({})

CauseInit ==
  /\ FromIdle
  /\ RenderIdle
  /\ ScreencastIdle
  /\ cStack = SmallStack
  /\ cErrors \in CauseChains
  /\ cPc = "input"
  /\ cAt = 0 /\ cDepth = 0 /\ cLines = <<>> /\ cOut = <<>>
  /\ TimeoutIdle
  /\ NetworkIdle

\* Lines 292-297: the lines of a stack's own fragments.
FragmentLines(stackTrace) ==
  formatFragment(stackTrace.syncFragment, CauseIgnore)
    \o FlatMapAsync(stackTrace.asyncFragments, CauseIgnore).value

\* formatStackTrace(stackTrace, cause) calls formatStackTraceInner, which
\* spreads the stack's fragments and calls formatCause(cause).
CallFormatStackTrace ==
  /\ cPc = "input"
  /\ cLines' = FragmentLines(cStack)
  /\ cAt' = IF Len(cErrors) = 0 THEN 0 ELSE 1
  /\ cPc' = "formatCause"
  /\ UNCHANGED <<cStack, cErrors, cDepth, cOut>>
  /\ UNCHANGED fromVars
  /\ UNCHANGED renderVars
  /\ UNCHANGED screencastVars
  /\ UNCHANGED timeoutVars
  /\ UNCHANGED networkVars

\* Mutant of NextCause: chains beyond three links are treated as truncated.
NextCauseCapped(error, depth) ==
  IF error.stackTrace.present /\ depth < 3 THEN error.cause ELSE 0

\* Lines 288-290 and 298: formatStackTraceInner(cause.stackTrace, cause.cause)
\* returns [] for an undefined stack, and calls formatCause(cause.cause)
\* otherwise, at whatever depth.
NextCause(error, depth) == IF error.stackTrace.present THEN error.cause ELSE 0

\* Lines 346-349: formatCause(cause) for an error: its 'Caused by:' line,
\* then formatStackTraceInner on its stack and its cause.
CallFormatCause ==
  /\ cPc = "formatCause"
  /\ cAt # 0
  /\ MaxCalls > cDepth
  /\ cLines' = cLines \o <<"Caused by: " \o cErrors[cAt].message>>
                 \o (IF cErrors[cAt].stackTrace.present
                       THEN FragmentLines(cErrors[cAt].stackTrace) ELSE <<>>)
  /\ cAt' = NextCause(cErrors[cAt], cDepth + 1)
  /\ cDepth' = cDepth + 1
  /\ UNCHANGED <<cStack, cErrors, cPc, cOut>>
  /\ UNCHANGED fromVars
  /\ UNCHANGED renderVars
  /\ UNCHANGED screencastVars
  /\ UNCHANGED timeoutVars
  /\ UNCHANGED networkVars

\* Lines 342-344 and 272-281: formatCause(undefined) returns [], every call
\* above it returns, and formatStackTrace cuts the lines and returns.
ReturnFormatStackTrace ==
  /\ cPc = "formatCause"
  /\ cAt = 0
  /\ cOut' = Truncated(cLines)
  /\ cPc' = "returned"
  /\ UNCHANGED <<cStack, cErrors, cAt, cDepth, cLines>>
  /\ UNCHANGED fromVars
  /\ UNCHANGED renderVars
  /\ UNCHANGED screencastVars
  /\ UNCHANGED timeoutVars
  /\ UNCHANGED networkVars

CauseNext ==
  \/ CallFormatStackTrace
  \/ CallFormatCause
  \/ ReturnFormatStackTrace

\* Each call runs to its next call or to its return.
SpecCause == CauseInit /\ [][CauseNext]_vars /\ WF_vars(CauseNext)

\* ------------------------------------ timeoutSchema (tools/ToolDefinition.ts)
\* A value a caller can pass as timeout: an integer, a number with a
\* fractional part (n + 1/2), something that is not a number, or nothing.
IntegerInput(n) == [present |-> TRUE, type |-> "number", integer |-> TRUE, n |-> n]
FractionInput(n) == [present |-> TRUE, type |-> "number", integer |-> FALSE, n |-> n]
StringInput == [present |-> TRUE, type |-> "string", integer |-> FALSE, n |-> 0]

TimeoutInputs ==
  {None, StringInput}
    \cup {IntegerInput(n) : n \in (0 - MaxTimeout)..MaxTimeout}
    \cup {FractionInput(n) : n \in (0 - MaxTimeout)..MaxTimeout}

TimeoutInit ==
  /\ FromIdle
  /\ RenderIdle
  /\ ScreencastIdle
  /\ CauseIdle
  /\ tInput \in TimeoutInputs
  /\ tPc = "input"
  /\ tValue = None
  /\ NetworkIdle

\* zod.number().int().optional(): undefined and integers pass.
Valid(input) == ~input.present \/ (input.type = "number" /\ input.integer)

Validate ==
  /\ tPc = "input"
  /\ tPc' = IF Valid(tInput) THEN "validated" ELSE "invalid"
  /\ tValue' = IF Valid(tInput) /\ tInput.present THEN Present(tInput.n) ELSE None
  /\ UNCHANGED tInput
  /\ UNCHANGED fromVars
  /\ UNCHANGED renderVars
  /\ UNCHANGED screencastVars
  /\ UNCHANGED causeVars
  /\ UNCHANGED networkVars

\* JavaScript truthiness of an optional integer: undefined and 0 are falsy.
Truthy(value) == value.present /\ value.value # 0

\* Line 184: value && value <= 0 ? undefined : value
transform(value) == IF Truthy(value) /\ value.value <= 0 THEN None ELSE value

Transform ==
  /\ tPc = "validated"
  /\ tValue' = transform(tValue)
  /\ tPc' = "transformed"
  /\ UNCHANGED tInput
  /\ UNCHANGED fromVars
  /\ UNCHANGED renderVars
  /\ UNCHANGED screencastVars
  /\ UNCHANGED causeVars
  /\ UNCHANGED networkVars

TimeoutNext ==
  \/ Validate
  \/ Transform

SpecTimeout == TimeoutInit /\ [][TimeoutNext]_vars

\* ----------------------------- NetworkFormatter.from (NetworkFormatter.ts)
\* A string as its content's name and its length.
Text(chars, length) == [chars |-> chars, length |-> length, truncated |-> FALSE]

\* Lines 219-224.
getSizeLimitedString(text, sizeLimit) ==
  IF text.length > sizeLimit
    THEN [chars |-> text.chars, length |-> sizeLimit + 15, truncated |-> TRUE]
  ELSE text

\* JavaScript truthiness of an optional string.
TruthyString(v) == v.present /\ v.value # ""

TruthyText(v) == v.present /\ v.value.length > 0

RequestBodyNotAvailable == "<Request body not available anymore>"
ResponseBodyNotAvailable == "<Response body not available anymore>"

SaveFileNotProvided == Error(<<"saveFile is not provided">>)
SaveFailed == Error(<<"EACCES", ": permission denied, open">>)

PostTexts == {Present(Text("", 0)), Present(Text("a=1", 3))}

\* What response.buffer() resolves to: a buffer that is UTF-8 text (empty,
\* short, over the limit) or is not.
Buffers ==
  { [utf8 |-> TRUE, text |-> Text("", 0)],
    [utf8 |-> TRUE, text |-> Text("{\"ok\":true}", 11)],
    [utf8 |-> TRUE, text |-> Text("<html>", BODY_CONTEXT_SIZE_LIMIT + 1)],
    [utf8 |-> FALSE, text |-> Text("", 0)] }

FilePaths == {None, Present(""), Present("/tmp/body.bin")}

NetworkRequests ==
  { [hasPostData |-> post, hasResponse |-> response] :
      post \in BOOLEAN, response \in BOOLEAN }

NetworkOptions ==
  { [fetchData |-> fetch, requestFilePath |-> req, responseFilePath |-> res,
     saveFile |-> save] :
      fetch \in BOOLEAN, req \in FilePaths, res \in FilePaths, save \in BOOLEAN }

NetworkInit ==
  /\ FromIdle
  /\ RenderIdle
  /\ ScreencastIdle
  /\ CauseIdle
  /\ TimeoutIdle
  /\ nRequest \in NetworkRequests
  /\ nOptions \in NetworkOptions
  /\ nRun = NetworkRun("start")

\* A collaborator call that has settled.
Settled_(op, result) == [op |-> op, result |-> result]

\* Lines 107-132 up to the await of response.buffer().
ResponsePart(run) ==
  IF ~nRequest.hasResponse THEN [run EXCEPT !.pc = "resolved"]
  ELSE IF TruthyString(nOptions.responseFilePath)
    THEN [run EXCEPT !.pc = "awaitBufferForFile"]
  ELSE [run EXCEPT !.pc = "awaitBufferForBody"]

\* Lines 79-103 once data is known, and on to the response.
AfterData(run, data) ==
  IF TruthyString(nOptions.requestFilePath)
    THEN IF ~nOptions.saveFile
           THEN [run EXCEPT !.pc = "rejected", !.error = SaveFileNotProvided]
         ELSE IF TruthyText(data)
           THEN [run EXCEPT !.pc = "awaitSaveRequest", !.data = data]
         ELSE ResponsePart([run EXCEPT !.this.requestBody = Present(RequestBodyNotAvailable)])
  ELSE IF TruthyText(data)
    THEN ResponsePart([run EXCEPT !.this.requestBody =
                         Present(getSizeLimitedString(data.value, BODY_CONTEXT_SIZE_LIMIT))])
  ELSE ResponsePart([run EXCEPT !.this.requestBody = Present(RequestBodyNotAvailable)])

\* from() up to its first await (lines 58-75). postData() returns a string or
\* undefined, or throws.
NetworkFrom ==
  /\ nRun.pc = "start"
  /\ IF ~nOptions.fetchData THEN nRun' = [nRun EXCEPT !.pc = "resolved"]
     ELSE IF ~nRequest.hasPostData THEN nRun' = ResponsePart(nRun)
     ELSE \/ \E data \in PostTexts :
               nRun' = AfterData([nRun EXCEPT !.calls = Append(@, Settled_("postData", "returned"))],
                                 data)
          \/ nRun' = [nRun EXCEPT !.pc = "awaitFetchPostData",
                                  !.calls = Append(@, Settled_("postData", "undefined"))]
          \/ nRun' = AfterData([nRun EXCEPT !.calls = Append(@, Settled_("postData", "threw"))],
                               None)
  /\ UNCHANGED <<nRequest, nOptions>>
  /\ UNCHANGED fromVars
  /\ UNCHANGED renderVars
  /\ UNCHANGED screencastVars
  /\ UNCHANGED causeVars
  /\ UNCHANGED timeoutVars

\* fetchPostData() settles (lines 73-78).
FetchPostDataSettle ==
  /\ nRun.pc = "awaitFetchPostData"
  /\ \/ \E data \in PostTexts \cup {None} :
          nRun' = AfterData([nRun EXCEPT !.calls = Append(@, Settled_("fetchPostData", "resolved"))],
                            data)
     \/ nRun' = AfterData([nRun EXCEPT !.calls = Append(@, Settled_("fetchPostData", "rejected"))],
                          None)
  /\ UNCHANGED <<nRequest, nOptions>>
  /\ UNCHANGED fromVars
  /\ UNCHANGED renderVars
  /\ UNCHANGED screencastVars
  /\ UNCHANGED causeVars
  /\ UNCHANGED timeoutVars

\* saveFile(Buffer.from(data), requestFilePath) settles (lines 86-90): its
\* rejection is not caught.
SaveRequestSettle ==
  /\ nRun.pc = "awaitSaveRequest"
  /\ \/ nRun' = ResponsePart([nRun EXCEPT
                   !.this.requestBodyFilePath = nOptions.requestFilePath,
                   !.calls = Append(@, Settled_("saveFile request", "resolved"))])
     \/ nRun' = [nRun EXCEPT !.pc = "rejected", !.error = SaveFailed,
                             !.calls = Append(@, Settled_("saveFile request", "rejected"))]
  /\ UNCHANGED <<nRequest, nOptions>>
  /\ UNCHANGED fromVars
  /\ UNCHANGED renderVars
  /\ UNCHANGED screencastVars
  /\ UNCHANGED causeVars
  /\ UNCHANGED timeoutVars

\* Mutant of AfterTry: the placeholder body is set whether or not the file
\* was saved.
AfterTryAlwaysBody(run) ==
  [run EXCEPT !.pc = "resolved", !.this.responseBody = Present(ResponseBodyNotAvailable)]

\* Lines 123-125, after the try/catch.
AfterTry(run) ==
  IF ~TruthyString(run.this.responseBodyFilePath)
    THEN [run EXCEPT !.pc = "resolved",
                     !.this.responseBody = Present(ResponseBodyNotAvailable)]
  ELSE [run EXCEPT !.pc = "resolved"]

\* response.buffer() settles inside the try (lines 113-117).
BufferForFileSettle ==
  /\ nRun.pc = "awaitBufferForFile"
  /\ \/ IF nOptions.saveFile
          THEN nRun' = [nRun EXCEPT !.pc = "awaitSaveResponse",
                          !.calls = Append(@, Settled_("response.buffer", "resolved"))]
          ELSE nRun' = AfterTry([nRun EXCEPT
                          !.calls = Append(@, Settled_("response.buffer", "resolved"))])
     \/ nRun' = AfterTry([nRun EXCEPT
                   !.calls = Append(@, Settled_("response.buffer", "rejected"))])
  /\ UNCHANGED <<nRequest, nOptions>>
  /\ UNCHANGED fromVars
  /\ UNCHANGED renderVars
  /\ UNCHANGED screencastVars
  /\ UNCHANGED causeVars
  /\ UNCHANGED timeoutVars

\* saveFile(buffer, responseFilePath) settles inside the try (lines 117-121).
SaveResponseSettle ==
  /\ nRun.pc = "awaitSaveResponse"
  /\ \/ nRun' = AfterTry([nRun EXCEPT
                   !.this.responseBodyFilePath = nOptions.responseFilePath,
                   !.calls = Append(@, Settled_("saveFile response", "resolved"))])
     \/ nRun' = AfterTry([nRun EXCEPT
                   !.calls = Append(@, Settled_("saveFile response", "rejected"))])
  /\ UNCHANGED <<nRequest, nOptions>>
  /\ UNCHANGED fromVars
  /\ UNCHANGED renderVars
  /\ UNCHANGED screencastVars
  /\ UNCHANGED causeVars
  /\ UNCHANGED timeoutVars

\* Lines 202-212, for the buffer httpResponse.buffer() resolved to.
FormattedBody(buffer) ==
  IF buffer.utf8
    THEN IF buffer.text.length = 0 THEN "<empty response>"
         ELSE getSizeLimitedString(buffer.text, BODY_CONTEXT_SIZE_LIMIT)
  ELSE "<binary data>"

\* #getFormattedResponseBody settles (lines 127-130, 195-216).
BufferForBodySettle ==
  /\ nRun.pc = "awaitBufferForBody"
  /\ \/ \E buffer \in Buffers :
          nRun' = [nRun EXCEPT !.pc = "resolved",
                     !.this.responseBody = Present(FormattedBody(buffer)),
                     !.calls = Append(@, Settled_("response.buffer", "resolved"))]
     \/ nRun' = [nRun EXCEPT !.pc = "resolved",
                   !.this.responseBody = Present("<not available anymore>"),
                   !.calls = Append(@, Settled_("response.buffer", "rejected"))]
  /\ UNCHANGED <<nRequest, nOptions>>
  /\ UNCHANGED fromVars
  /\ UNCHANGED renderVars
  /\ UNCHANGED screencastVars
  /\ UNCHANGED causeVars
  /\ UNCHANGED timeoutVars

NetworkNext ==
  \/ NetworkFrom
  \/ FetchPostDataSettle
  \/ SaveRequestSettle
  \/ BufferForFileSettle
  \/ SaveResponseSettle
  \/ BufferForBodySettle

SpecNetwork == NetworkInit /\ [][NetworkNext]_vars

\* --------------------------------- screencast_start and screencast_stop
\* process.cwd(), against which path.resolve resolves a relative path.
Cwd == <<"home", "user", "project">>

\* path.resolve(filePath)
resolve(p) == IF p.absolute THEN p ELSE Path(TRUE, Cwd \o p.segments)

RECURSIVE JoinWith(_, _)
JoinWith(segments, sep) ==
  IF Len(segments) = 0 THEN ""
  ELSE IF Len(segments) = 1 THEN Head(segments)
  ELSE Head(segments) \o sep \o JoinWith(Tail(segments), sep)

\* `${path}` in a template string
PathText(p) == (IF p.absolute THEN "/" ELSE "") \o JoinWith(p.segments, "/")

\* Lines 17-20: mkdtemp appends a unique suffix to the prefix.
generateTempFilePath(suffix) ==
  Path(TRUE, <<"tmp", "chrome-devtools-mcp-" \o suffix, "screencast.mp4">>)

TempSuffixes == {"Ab3dE9"}

\* request.params.path: omitted, absolute, relative.
ParamsPaths ==
  { None, Path(TRUE, <<"tmp", "test-recording.mp4">>),
    Path(FALSE, <<"recordings", "demo.mp4">>) }

\* What page.screencast, recorder.stop and mkdtemp can reject with.
FfmpegMissing == Error(<<"spawn ", "ffmpeg", " ", "ENOENT">>)
EnoentOther == Error(<<"ENOENT", ": no such file or directory, open '/tmp/out'">>)
FfmpegCrash == Error(<<"ffmpeg", " process error">>)
ThrownString == ThrownValue(<<"ffmpeg", ": ", "ENOENT">>)
FsError == Error(<<"EACCES", ": permission denied, mkdtemp">>)

ScreencastErrors == {FfmpegMissing, EnoentOther, FfmpegCrash, ThrownString}
StopErrors == {FfmpegCrash, EnoentOther}

\* Line 59: err instanceof Error ? err.message : String(err)
messageOf(err) == IF err.isError THEN err.message ELSE err.text

\* String.prototype.includes, for a part of the message
includes(message, part) == \E i \in 1..Len(message) : message[i] = part

\* Lines 61-64.
FfmpegRequired ==
  Error(<<"ffmpeg is required for screencast recording but was not found. ",
          "Install ffmpeg (https://ffmpeg.org/) and ensure it is available in your PATH.">>)

\* Mutant of StartFailure: 'ENOENT' alone selects the ffmpeg error.
StartFailureAnyEnoent(err) ==
  IF includes(messageOf(err), "ENOENT") THEN FfmpegRequired ELSE err

\* Lines 58-67: what the handler throws when page.screencast rejected with err.
StartFailure(err) ==
  IF includes(messageOf(err), "ENOENT") /\ includes(messageOf(err), "ffmpeg")
    THEN FfmpegRequired
  ELSE err

AlreadyInProgressLine ==
  "Error: a screencast recording is already in progress. "
    \o "Use screencast_stop to stop it before starting a new one."

StartedLine(resolvedPath) ==
  "Screencast recording started. The recording will be saved to "
    \o PathText(resolvedPath) \o ". Use screencast_stop to stop recording."

StoppedLine(filePath) ==
  "The screencast recording has been stopped and saved to " \o PathText(filePath) \o "."

ScreencastCall(h, resolvedPath) ==
  [op |-> "page.screencast", h |-> h, path |-> resolvedPath]
StopCall(h, recorder) == [op |-> "recorder.stop", h |-> h, recorder |-> recorder]
MkdtempCall(h) == [op |-> "fs.mkdtemp", h |-> h]
\* The promise a call returned rejected with err.
Rejection(op, h, err) == [op |-> op, h |-> h, rejected |-> err]

\* An invocation that has not settled.
Running == \E h \in 1..Len(handlers) : handlers[h].pc \notin {"returned", "rejected"}

\* Mutant of AlreadyActive: the handler throws instead of reporting.
AlreadyActiveThrows(hs) ==
  [hs EXCEPT !.pc = "rejected", !.error = Error(<<AlreadyInProgressLine>>)]

\* Lines 40-45.
AlreadyActive(hs) ==
  [hs EXCEPT !.pc = "returned", !.lines = Append(@, AlreadyInProgressLine)]

\* Mutant of CallScreencast: the path is kept as it was given.
CallScreencastUnresolved(hs, filePath) ==
  [hs EXCEPT !.pc = "awaitScreencast", !.resolvedPath = filePath]

\* Lines 47-57 once filePath is known: page.screencast is called.
CallScreencast(hs, filePath) ==
  [hs EXCEPT !.pc = "awaitScreencast", !.resolvedPath = resolve(filePath)]

\* screencast_start is invoked: the handler up to its first await.
InvokeStart ==
  /\ MaxInvocations > Len(handlers)
  /\ \E path \in ParamsPaths :
       LET h == Len(handlers) + 1
           hs == [IdleHandler EXCEPT !.tool = "screencast_start", !.data = screenRecorder]
       IN IF screenRecorder # None
            THEN /\ handlers' = Append(handlers, AlreadyActive(hs))
                 /\ UNCHANGED calls
          ELSE IF path.present
            THEN /\ handlers' = Append(handlers, CallScreencast(hs, path))
                 /\ calls' = Append(calls, ScreencastCall(h, resolve(path)))
          ELSE /\ handlers' = Append(handlers, [hs EXCEPT !.pc = "awaitTempPath"])
               /\ calls' = Append(calls, MkdtempCall(h))
  /\ UNCHANGED <<screenRecorder, recorders>>
  /\ UNCHANGED fromVars
  /\ UNCHANGED renderVars
  /\ UNCHANGED causeVars
  /\ UNCHANGED timeoutVars
  /\ UNCHANGED networkVars

\* generateTempFilePath settles (line 47).
TempPathSettle ==
  /\ \E h \in 1..Len(handlers) :
       /\ handlers[h].pc = "awaitTempPath"
       /\ \/ \E suffix \in TempSuffixes :
               /\ handlers' = [handlers EXCEPT
                    ![h] = CallScreencast(@, generateTempFilePath(suffix))]
               /\ calls' = Append(calls,
                    ScreencastCall(h, resolve(generateTempFilePath(suffix))))
          \/ /\ handlers' = [handlers EXCEPT ![h].pc = "rejected", ![h].error = FsError]
             /\ UNCHANGED calls
  /\ UNCHANGED <<screenRecorder, recorders>>
  /\ UNCHANGED fromVars
  /\ UNCHANGED renderVars
  /\ UNCHANGED causeVars
  /\ UNCHANGED timeoutVars
  /\ UNCHANGED networkVars

\* page.screencast settles (lines 54-73).
ScreencastSettle ==
  /\ \E h \in 1..Len(handlers) :
       /\ handlers[h].pc = "awaitScreencast"
       /\ \/ /\ recorders' = recorders + 1
             /\ screenRecorder' = RecorderData(recorders + 1, handlers[h].resolvedPath)
             /\ handlers' = [handlers EXCEPT
                  ![h].pc = "returned",
                  ![h].lines = Append(@, StartedLine(handlers[h].resolvedPath))]
             /\ UNCHANGED calls
          \/ \E err \in ScreencastErrors :
               /\ handlers' = [handlers EXCEPT
                    ![h].pc = "rejected", ![h].error = StartFailure(err)]
               /\ calls' = Append(calls, Rejection("page.screencast", h, err))
               /\ UNCHANGED <<screenRecorder, recorders>>
  /\ UNCHANGED fromVars
  /\ UNCHANGED renderVars
  /\ UNCHANGED causeVars
  /\ UNCHANGED timeoutVars
  /\ UNCHANGED networkVars

\* Mutant of NoRecording: the handler reports that nothing was recording.
NoRecordingReported(hs) ==
  [hs EXCEPT !.pc = "returned", !.lines = Append(@, "No screencast recording is active.")]

\* Lines 87-90.
NoRecording(hs) == [hs EXCEPT !.pc = "returned"]

\* screencast_stop is invoked: the handler up to its first await.
InvokeStop ==
  /\ MaxInvocations > Len(handlers)
  /\ LET h == Len(handlers) + 1
         hs == [IdleHandler EXCEPT !.tool = "screencast_stop", !.data = screenRecorder]
     IN IF ~screenRecorder.present
          THEN /\ handlers' = Append(handlers, NoRecording(hs))
               /\ UNCHANGED calls
        ELSE /\ handlers' = Append(handlers, [hs EXCEPT !.pc = "awaitStop"])
             /\ calls' = Append(calls, StopCall(h, screenRecorder.recorder))
  /\ UNCHANGED <<screenRecorder, recorders>>
  /\ UNCHANGED fromVars
  /\ UNCHANGED renderVars
  /\ UNCHANGED causeVars
  /\ UNCHANGED timeoutVars
  /\ UNCHANGED networkVars

\* Mutant of RecorderAfterStop: the recorder is cleared on success only.
RecorderAfterStopOnSuccessOnly(ok, stored) == IF ok THEN None ELSE stored

\* Lines 96-98: finally { context.setScreenRecorder(null) }
RecorderAfterStop(ok, stored) == None

\* data.recorder.stop() settles (lines 91-98).
StopSettle ==
  /\ \E h \in 1..Len(handlers) :
       /\ handlers[h].pc = "awaitStop"
       /\ \/ /\ handlers' = [handlers EXCEPT
                  ![h].pc = "returned",
                  ![h].lines = Append(@, StoppedLine(handlers[h].data.filePath))]
             /\ screenRecorder' = RecorderAfterStop(TRUE, screenRecorder)
             /\ UNCHANGED calls
          \/ \E err \in StopErrors :
               /\ handlers' = [handlers EXCEPT ![h].pc = "rejected", ![h].error = err]
               /\ screenRecorder' = RecorderAfterStop(FALSE, screenRecorder)
               /\ calls' = Append(calls, Rejection("recorder.stop", h, err))
  /\ UNCHANGED recorders
  /\ UNCHANGED fromVars
  /\ UNCHANGED renderVars
  /\ UNCHANGED causeVars
  /\ UNCHANGED timeoutVars
  /\ UNCHANGED networkVars

\* The tools invoked one after another: an invocation starts when the one
\* before it has settled.
StartScreencast == ~Running /\ InvokeStart

StopScreencast == ~Running /\ InvokeStop

ScreencastInit ==
  /\ FromIdle
  /\ RenderIdle
  /\ ScreencastIdle
  /\ CauseIdle
  /\ TimeoutIdle
  /\ NetworkIdle

ScreencastNext ==
  \/ StartScreencast
  \/ TempPathSettle
  \/ ScreencastSettle
  \/ StopScreencast
  \/ StopSettle

SpecScreencast == ScreencastInit /\ [][ScreencastNext]_vars

\* The tools invoked while earlier invocations are suspended at an await.
OverlapNext ==
  \/ InvokeStart
  \/ TempPathSettle
  \/ ScreencastSettle
  \/ InvokeStop
  \/ StopSettle

SpecOverlap == ScreencastInit /\ [][OverlapNext]_vars

\* ------------------------------------------------------------------ claims
\* What the claims count and expect, stated without the renderer.
Survivors(frames, check) == SelectSeq(frames, LAMBDA f : ~IsIgnored(check, f))

RECURSIVE SumAsyncLines(_, _)
SumAsyncLines(fragments, check) ==
  IF Len(fragments) = 0 THEN 0
  ELSE (IF Len(Survivors(Head(fragments).frames, check)) = 0 THEN 0
        ELSE 1 + Len(Survivors(Head(fragments).frames, check)))
       + SumAsyncLines(Tail(fragments), check)

\* Surviving frame lines, separator lines and 'Caused by:' lines of a stack
\* and of the cause chain that is rendered under it.
RECURSIVE CountLines(_, _, _)
CountLines(stackTrace, cause, check) ==
  IF ~stackTrace.present THEN 0
  ELSE Len(Survivors(stackTrace.syncFragment.frames, check))
       + SumAsyncLines(stackTrace.asyncFragments, check)
       + (IF cause.present
            THEN 1 + CountLines(cause.stackTrace, cause.cause, check)
            ELSE 0)

MoreFramesLine(n) == "... and " \o ToString(n) \o " more frames"

\* C2: whenever the stack's lines are rendered, L of them, the rendered stack
\* is the first 50 lines, '... and L-50 more frames' and the note if L > 50,
\* and all L lines and the note (no 'more frames' line) if L <= 50.
C2_TruncationAt50 ==
  (rPc = "rendered" /\ ~rLines.thrown) =>
    LET L == Len(rLines.value)
    IN /\ L = CountLines(rStack, rCause, rIgnore)
       /\ ~rOut.thrown
       /\ IF L > 50
            THEN rOut.value = SubSeq(rLines.value, 1, 50)
                                \o <<MoreFramesLine(L - 50), NOTE_LINE>>
            ELSE rOut.value = rLines.value \o <<NOTE_LINE>>

\* C2 witness: a stack over the limit whose lines include async separators
\* and a 'Caused by:' line, rendered with some frames ignored.
C2_Witness ==
  /\ rPc = "rendered"
  /\ ~rOut.thrown
  /\ Len(rLines.value) = 52
  /\ Len(rOut.value) = 52
  /\ rCause.present
  /\ Len(rStack.asyncFragments) > 0
  /\ rIgnore = TestingIgnore({VendorUrl})

\* The frame line the claim of C3 describes.
OneBasedFrameLine(frame) ==
  "at " \o frame.name \o " (" \o frame.url \o ":" \o ToString(frame.line + 1)
    \o ":" \o ToString(frame.column + 1) \o ")"

\* C3: every rendered line of a named frame that has a url and no resolved
\* source location is 'at <name> (<url>:<l+1>:<c+1>)' for its 0-based l, c.
C3_OneBasedNumbers ==
  rPc # "input" =>
    LET shown == Survivors(rStack.syncFragment.frames, rIgnore)
    IN \A i \in 1..Len(shown) :
         (shown[i].hasName /\ shown[i].url # "" /\ shown[i].uiSourceCode = "")
           => (i <= Len(rSync) /\ rSync[i] = OneBasedFrameLine(shown[i]))

\* A 40-column-or-shorter banner '--- <description> ' padded with dashes.
IsBanner(line, fragment) ==
  \E k \in 0..separatorLineLength :
    line = "--- " \o (IF fragment.hasDescription /\ fragment.description # ""
                        THEN fragment.description ELSE "async")
                  \o " " \o RepeatString("-", k)

\* C6: a synchronous fragment whose frames are all ignored contributes no
\* line; an async fragment whose frames are all ignored contributes nothing,
\* not even its banner; an async fragment with a surviving frame contributes
\* its banner followed by exactly its surviving frames; and these
\* contributions, in order, open the stack's lines.
C6_IgnoredFragments ==
  rPc # "input" =>
    /\ Len(rSync) = Len(Survivors(rStack.syncFragment.frames, rIgnore))
    /\ \A k \in 1..Len(rStack.asyncFragments) :
         LET fragment == rStack.asyncFragments[k]
             shown == Survivors(fragment.frames, rIgnore)
         IN IF Len(shown) = 0
              THEN rAsync[k] = Ok(<<>>)
              ELSE /\ ~rAsync[k].thrown
                   /\ Len(rAsync[k].value) = 1 + Len(shown)
                   /\ IsBanner(Head(rAsync[k].value), fragment)
                   /\ Tail(rAsync[k].value) = MapFrames(shown)
    /\ rPc = "rendered" =>
         /\ ~rLines.thrown
         /\ LET opening == rSync \o Concat([k \in 1..Len(rAsync) |-> rAsync[k].value])
            IN SubSeq(rLines.value, 1, Len(opening)) = opening

\* The cause chain c1, c2, ..., ck under an error.
RECURSIVE Chain(_)
Chain(cause) == IF ~cause.present THEN <<>> ELSE <<cause>> \o Chain(cause.cause)

\* The surviving frames of a cause's own synchronous fragment, as lines.
OwnFrameLines(cause, check) ==
  IF cause.stackTrace.present
    THEN MapFrames(Survivors(cause.stackTrace.syncFragment.frames, check))
  ELSE <<>>

\* 'Caused by: <ci.message>' followed by ci's own frames, for i = 1..k.
CauseLines(chain, check) ==
  Concat([i \in 1..Len(chain) |->
            <<"Caused by: " \o chain[i].message>> \o OwnFrameLines(chain[i], check)])

\* C11: the lines rendered for a stack and its cause chain c1..ck end with
\* 'Caused by: <ci.message>' and ci's own surviving frames for every i in
\* 1..k, in chain order; the text shown is those lines cut at 50.
C11_CauseChain ==
  (rPc = "rendered" /\ ~rLines.thrown) =>
    LET expected == CauseLines(Chain(rCause), rIgnore)
        n == Len(rLines.value)
    IN /\ Len(expected) <= n
       /\ SubSeq(rLines.value, n - Len(expected) + 1, n) = expected

\* ---- claims about from() and the four renderings (specification Spec)
Done == pc = "done"

LiveArgs ==
  /\ ~msg.isUncaught
  /\ ~options.resolvedArgsForTesting.present
  /\ options.fetchDetailedData

Logged(op, i) == \E j \in 1..Len(log) : log[j] = Call(op, i)

\* Position i (1-based) failed: remoteObject() threw, or fromError / jsonValue
\* rejected.
FailedAt(i) == Logged("threw", i) \/ Logged("rejected", i)

\* Position of the first line equal to l, 0 if there is none.
IndexOf(lines, l) ==
  IF \E i \in 1..Len(lines) : lines[i] = l
    THEN CHOOSE i \in 1..Len(lines) :
           lines[i] = l /\ \A j \in 1..(i - 1) : lines[j] # l
  ELSE 0

\* The lines under '### Arguments', up to '### Stack trace' or the end.
ArgumentsSection(lines) ==
  LET a == IndexOf(lines, "### Arguments")
      t == IndexOf(lines, "### Stack trace")
  IN IF a = 0 THEN <<>>
     ELSE SubSeq(lines, a + 1, IF t = 0 THEN Len(lines) ELSE t - 1)

ArgText(v) == formatArg(v, formatter.isIgnored).value

\* C1: for a console message with empty text and n >= 1 resolved arguments,
\* toJSONDetailed().args is the rendering of arguments 2..n in order, the
\* '### Arguments' section of toStringDetailed() lists exactly those as
\* Arg #0..#(n-2), and argsCount is n in every rendering.
C1_FirstArgumentIsText ==
  (Done /\ ~msg.isUncaught /\ msg.text = "" /\ Len(formatter.resolvedArgs) >= 1
        /\ rendering.method # "none" /\ ~rendering.result.thrown) =>
    LET n == Len(formatter.resolvedArgs)
        rest == [k \in 1..(n - 1) |-> ArgText(formatter.resolvedArgs[k + 1])]
    IN /\ rendering.method = "toJSON" => rendering.result.value.argsCount = n
       /\ rendering.method = "toJSONDetailed" =>
            /\ rendering.result.value.args = rest
            /\ rendering.result.value.argsCount = n
       /\ rendering.method = "toStringDetailed" =>
            ArgumentsSection(rendering.result.value)
              = Concat([k \in 1..(n - 1) |->
                          Prepend("Arg #" \o ToString(k - 1) \o ": ", rest[k])])

\* C1 witness: scenario B: empty text, 'file.txt' and 'another file' resolved
\* live, and the detailed string lists 'another file' alone.
C1_Witness ==
  /\ Done /\ LiveArgs /\ msg.text = ""
  /\ formatter.resolvedArgs = <<StringValue("file.txt"), StringValue("another file")>>
  /\ formatter.argCount = 2
  /\ rendering.method = "toStringDetailed"
  /\ ~rendering.result.thrown
  /\ ArgumentsSection(rendering.result.value) = <<"Arg #0: another file">>

\* C4: with enrichment, from() resolves to a formatter; the argument at every
\* failed position i is '<error: Argument i is no longer available>' (i
\* 0-based) and every other argument holds what its own resolution produced,
\* whatever subset of positions failed.
C4_FailureIsolatedPerArgument ==
  (Done /\ LiveArgs) =>
    /\ formatter.present
    /\ Len(formatter.resolvedArgs) = Len(msg.args)
    /\ \A i \in 1..Len(msg.args) :
         IF FailedAt(i)
           THEN formatter.resolvedArgs[i]
                  = StringValue("<error: Argument " \o ToString(i - 1)
                                  \o " is no longer available>")
           ELSE formatter.resolvedArgs[i]
                  = (IF msg.args[i].subtype = "error"
                       THEN ErrorValue(msg.args[i].error)
                       ELSE msg.args[i].value)

\* C4 witness: two arguments, the first failed (jsonValue rejected) and the
\* second, an error object, was symbolized.
C4_Witness ==
  /\ Done /\ LiveArgs
  /\ Len(msg.args) = 2
  /\ Logged("rejected", 1) /\ Logged("resolved", 2)
  /\ formatter.resolvedArgs[1] = StringValue("<error: Argument 0 is no longer available>")
  /\ formatter.resolvedArgs[2] = ErrorValue(TypeErrorValue)

\* What the log says position i settled to.
OutcomeAt(i) == IF FailedAt(i) THEN Sentinel(i - 1) ELSE Resolved(i)

Settled(i) == FailedAt(i) \/ Logged("resolved", i)

\* Position j settled before position i.
SettledBefore(j, i) ==
  \E a, b \in 1..Len(log) :
    /\ a < b
    /\ log[a] \in {Call("resolved", j), Call("rejected", j)}
    /\ log[b] \in {Call("resolved", i), Call("rejected", i)}

\* C5: in whatever order the resolutions complete, the result array has one
\* slot per raw argument and slot i holds the outcome of raw argument i, while
\* they settle and in the formatter from() resolves to.
C5_OriginalOrder ==
  LiveArgs =>
    /\ pc = "awaitArgs" =>
         /\ Len(results) = Len(msg.args)
         /\ \A i \in 1..Len(msg.args) :
              results[i] = (IF Settled(i) THEN OutcomeAt(i) ELSE PendingSlot)
    /\ Done =>
         /\ Len(formatter.resolvedArgs) = Len(msg.args)
         /\ \A i \in 1..Len(msg.args) : formatter.resolvedArgs[i] = OutcomeAt(i)

\* C5 witness: the second argument completed before the first, both with
\* different values, and the formatter holds them in argument order.
C5_Witness ==
  /\ Done /\ LiveArgs
  /\ Len(msg.args) = 2
  /\ SettledBefore(2, 1)
  /\ formatter.resolvedArgs = <<StringValue("file.txt"), StringValue("another file")>>

\* The argument count a console message's concise rendering shows: of the
\* message, the id and the override array alone.
ConciseCount ==
  IF options.resolvedArgsForTesting.present /\ Len(options.resolvedArgsForTesting.value) > 0
    THEN Len(options.resolvedArgsForTesting.value)
  ELSE Len(msg.args)

\* C7: toString() is 'msgid=<id> [<type>] <text> (<argsCount> args)' and
\* toJSON() is {type, text, argsCount, id}; for a console message these are
\* fixed by the message, the id and the override array, so they are the same
\* with and without the detail flag, whatever the arguments resolved to and
\* whatever stack was found.
C7_ConciseIgnoresDetail ==
  (Done /\ rendering.method \in {"toString", "toJSON"}) =>
    /\ ~rendering.result.thrown
    /\ rendering.method = "toString" =>
         rendering.result.value
           = "msgid=" \o ToString(formatter.id) \o " [" \o formatter.type \o "] "
               \o formatter.text \o " (" \o ToString(formatter.argCount) \o " args)"
    /\ rendering.method = "toJSON" =>
         rendering.result.value
           = [type |-> formatter.type, text |-> formatter.text,
              argsCount |-> formatter.argCount, id |-> formatter.id]
    /\ ~msg.isUncaught =>
         /\ formatter.id = options.id
         /\ formatter.type = msg.type
         /\ formatter.text = msg.text
         /\ formatter.argCount = ConciseCount

\* C7 witness: the concise string of a message built without the detail flag
\* although it has two raw arguments and an override stack.
C7_Witness ==
  /\ Done /\ ~msg.isUncaught
  /\ ~options.fetchDetailedData
  /\ ~options.resolvedArgsForTesting.present
  /\ Len(msg.args) = 2
  /\ formatter.stack.present
  /\ rendering = Rendered("toString", Ok("msgid=1 [log] Processing file: (2 args)"))

\* The cheap path of from(): a console message, no detail flag, no override.
CheapPath ==
  /\ ~msg.isUncaught
  /\ ~options.fetchDetailedData
  /\ ~options.resolvedArgsForTesting.present
  /\ ~options.resolvedStackTraceForTesting.present

\* C8: without the detail flag and without overrides no collaborator is
\* called at any point of from(), and the formatter has no resolved argument
\* (toJSONDetailed().args is empty), no stack trace, and argsCount equal to
\* the number of raw arguments.
C8_CheapPath ==
  CheapPath =>
    /\ log = <<>>
    /\ pc \in {"start", "done"}
    /\ Done =>
         /\ formatter.resolvedArgs = <<>>
         /\ ~formatter.stack.present
         /\ formatter.argCount = Len(msg.args)
         /\ rendering.method = "toJSONDetailed" =>
              /\ ~rendering.result.thrown
              /\ rendering.result.value.args = <<>>
              /\ ~rendering.result.value.stackTrace.present
              /\ rendering.result.value.argsCount = Len(msg.args)

\* C8 witness: two raw arguments, devTools given, no flag, toJSONDetailed().
C8_Witness ==
  /\ Done /\ CheapPath
  /\ options.devTools
  /\ Len(msg.args) = 2
  /\ rendering.method = "toJSONDetailed"
  /\ rendering.result.value.argsCount = 2

StackConstructorFailed == Logged("stackRejected", 0)

\* C9: when the stack constructor fails, from() still resolves to a formatter
\* without a stack trace (no stackTrace in toJSONDetailed(), no stack section
\* in toStringDetailed()), with the arguments as they were resolved and the
\* message's type, text and argument count.
C9_StackFailureDegrades ==
  StackConstructorFailed =>
    /\ Done
    /\ formatter.present
    /\ ~formatter.stack.present
    /\ formatter.resolvedArgs = results
    /\ formatter.type = msg.type
    /\ formatter.text = msg.text
    /\ formatter.argCount = ConciseCount
    /\ (rendering.method = "toJSONDetailed" /\ ~rendering.result.thrown) =>
         ~rendering.result.value.stackTrace.present
    /\ (rendering.method = "toStringDetailed" /\ ~rendering.result.thrown) =>
         IndexOf(rendering.result.value, "### Stack trace") = 0

\* C9 witness: two arguments resolved live, the stack constructor rejected,
\* and the detailed string was produced.
C9_Witness ==
  /\ StackConstructorFailed
  /\ LiveArgs /\ options.devTools
  /\ Len(formatter.resolvedArgs) = 2
  /\ Logged("resolved", 1)
  /\ rendering.method = "toStringDetailed"
  /\ ~rendering.result.thrown

\* The symbolized error from() built the formatter from.
SymbolizedOf(lg) == lg[Len(lg)].error

\* C12: for an uncaught error, whatever the detail flag and the override
\* array, the formatter has type 'error', the symbolized error's message as
\* text, its stack trace and its cause, no argument (toJSONDetailed().args is
\* empty) and argsCount 0 in every rendering.
C12_UncaughtError ==
  (Done /\ msg.isUncaught) =>
    /\ formatter.present
    /\ formatter.type = "error"
    /\ formatter.text = SymbolizedOf(log).message
    /\ formatter.stack = SymbolizedOf(log).stackTrace
    /\ formatter.cause = SymbolizedOf(log).cause
    /\ formatter.resolvedArgs = <<>>
    /\ formatter.argCount = 0
    /\ rendering.method = "toJSON" =>
         /\ rendering.result.value.type = "error"
         /\ rendering.result.value.argsCount = 0
    /\ (rendering.method = "toJSONDetailed" /\ ~rendering.result.thrown) =>
         /\ rendering.result.value.type = "error"
         /\ rendering.result.value.text = SymbolizedOf(log).message
         /\ rendering.result.value.args = <<>>
         /\ rendering.result.value.argsCount = 0
         /\ rendering.result.value.stackTrace.present = SymbolizedOf(log).stackTrace.present
    /\ (rendering.method = "toStringDetailed" /\ ~rendering.result.thrown) =>
         IndexOf(rendering.result.value, "### Arguments") = 0

\* C12 witness: an uncaught error built with the detail flag and a non-empty
\* override array, with a stack and a cause, rendered by toJSONDetailed().
C12_Witness ==
  /\ Done /\ msg.isUncaught
  /\ options.fetchDetailedData
  /\ options.resolvedArgsForTesting.present
  /\ Len(options.resolvedArgsForTesting.value) > 0
  /\ formatter.stack.present /\ formatter.cause.present
  /\ rendering.method = "toJSONDetailed"
  /\ ~rendering.result.thrown
  /\ rendering.result.value.args = <<>>

\* C13: toJSONDetailed() of a console message returns an object whose fields
\* are exactly id, type, text, args and stackTrace; args holds the arguments
\* shown, as strings, in their original order, and stackTrace is undefined
\* when the formatter has no stack trace.
C13_DetailedFields ==
  (Done /\ ~msg.isUncaught /\ rendering.method = "toJSONDetailed"
        /\ ~rendering.result.thrown) =>
    /\ DOMAIN rendering.result.value = {"id", "type", "text", "args", "stackTrace"}
    /\ rendering.result.value.args
         = [k \in 1..Len(getArgs(formatter)) |-> ArgText(getArgs(formatter)[k])]
    /\ ~formatter.stack.present => ~rendering.result.value.stackTrace.present

\* What a rendering method returns for a formatter.
ResultOf(method, this) ==
  CASE method = "toString" -> Ok(toString(this))
    [] method = "toJSON" -> Ok(toJSON(this))
    [] method = "toStringDetailed" -> toStringDetailed(this)
    [] method = "toJSONDetailed" -> toJSONDetailed(this)

\* C14: once from() has resolved, no call of toString(), toJSON(),
\* toStringDetailed() or toJSONDetailed(), in any order and any number of
\* times, changes a field of the formatter (the stored argument list
\* included) or the caller's override array, and what a method returned is
\* what the method returns for the formatter as it is, so every call of it
\* returns an equal result.
C14_RenderingIsPure ==
  /\ [](rendering.method # "none" =>
          rendering.result = ResultOf(rendering.method, formatter))
  /\ [][pc = "done" =>
          (formatter' = formatter /\ options' = options /\ msg' = msg)]_vars

\* C14 witness: empty text and a two-element override array: toJSONDetailed()
\* has shown the second element alone, and the stored list and the override
\* array still hold both.
C14_Witness ==
  /\ Done /\ ~msg.isUncaught /\ msg.text = ""
  /\ rendering.method = "toJSONDetailed"
  /\ ~rendering.result.thrown
  /\ rendering.result.value.args = << <<"another file">> >>
  /\ formatter.resolvedArgs = <<StringValue("file.txt"), StringValue("another file")>>
  /\ options.resolvedArgsForTesting
       = Present(<<StringValue("file.txt"), StringValue("another file")>>)

\* ---- claims about the screencast tools (specification SpecScreencast)
Invocations == 1..Len(handlers)

\* The calls invocation h made, in order.
CallsOf(h) == SelectSeq(calls, LAMBDA c : c.h = h /\ "rejected" \notin DOMAIN c)

\* Invocation h has just been made by this step.
Invoked(h, tool) ==
  /\ Len(handlers) = h - 1
  /\ Len(handlers') = h
  /\ handlers'[h].tool = tool

\* Invocation h settles in this step.
Settles(h) ==
  /\ h \in Invocations
  /\ handlers[h].pc \notin {"returned", "rejected"}
  /\ handlers'[h].pc \in {"returned", "rejected"}

\* C15: a screencast_start invoked while a recorder is stored makes no call
\* (page.screencast is not called), appends the one line 'Error: a screencast
\* recording is already in progress. ...', returns without throwing, and the
\* step leaves the stored recorder and its file path as they were.
C15_AlreadyInProgress ==
  /\ [](\A h \in Invocations :
          (handlers[h].tool = "screencast_start" /\ handlers[h].data.present) =>
            /\ handlers[h].pc = "returned"
            /\ handlers[h].error = None
            /\ handlers[h].lines
                 = <<"Error: " \o "a screencast recording is already in progress"
                       \o ". Use screencast_stop to stop it before starting a new one.">>
            /\ CallsOf(h) = <<>>)
  /\ [][\A h \in 1..MaxInvocations :
          (Invoked(h, "screencast_start") /\ screenRecorder.present) =>
            (screenRecorder' = screenRecorder /\ calls' = calls)]_vars

\* C15 witness: a second screencast_start while the first one's recorder is
\* stored: it returned, and the stored recorder is the one it found.
C15_Witness ==
  \E h \in Invocations :
    /\ h > 1
    /\ handlers[h].tool = "screencast_start"
    /\ handlers[h].data.present
    /\ handlers[h].pc = "returned"
    /\ screenRecorder = handlers[h].data

\* The error a call of invocation h rejected with, if it did.
RejectedWith(op, h, err) == \E i \in 1..Len(calls) : calls[i] = Rejection(op, h, err)

\* C16: a screencast_stop invoked while a recorder is stored calls stop() on
\* that recorder exactly once and nothing else; it keeps the recorder stored
\* while it waits; the step in which it settles leaves no recorder stored,
\* stop() resolved or rejected; on success it returns with the one line
\* 'The screencast recording has been stopped and saved to <filePath>.'; on
\* rejection it rejects with that error and appends no line.
C16_StopClears ==
  /\ [](\A h \in Invocations :
          (handlers[h].tool = "screencast_stop" /\ handlers[h].data.present) =>
            /\ CallsOf(h) = <<StopCall(h, handlers[h].data.recorder)>>
            /\ handlers[h].pc \in {"awaitStop", "returned", "rejected"}
            /\ handlers[h].pc = "awaitStop" => screenRecorder = handlers[h].data
            /\ handlers[h].pc = "returned" =>
                 /\ handlers[h].error = None
                 /\ handlers[h].lines
                      = <<"The screencast recording has been stopped and saved to "
                            \o PathText(handlers[h].data.filePath) \o ".">>
                 /\ \A err \in StopErrors : ~RejectedWith("recorder.stop", h, err)
            /\ handlers[h].pc = "rejected" =>
                 /\ handlers[h].lines = <<>>
                 /\ handlers[h].error.present
                 /\ RejectedWith("recorder.stop", h, handlers[h].error))
  /\ [][\A h \in 1..MaxInvocations :
          (Settles(h) /\ handlers[h].tool = "screencast_stop") =>
            ~screenRecorder'.present]_vars

\* C16 witness: stop() rejected: the invocation rejected with its error and
\* no recorder is stored.
C16_Witness ==
  \E h \in Invocations :
    /\ handlers[h].tool = "screencast_stop"
    /\ handlers[h].data.present
    /\ handlers[h].pc = "rejected"
    /\ handlers[h].error = FfmpegCrash
    /\ ~screenRecorder.present

\* C17: when page.screencast rejects with err, the screencast_start invocation
\* rejects, has appended no line, and leaves no recorder stored; it rejects
\* with 'ffmpeg is required for screencast recording but was not found. ...'
\* when err's message contains 'ENOENT' and 'ffmpeg', and with err itself
\* otherwise.
C17_StartFailure ==
  /\ [](\A h \in Invocations : \A err \in ScreencastErrors :
          RejectedWith("page.screencast", h, err) =>
            /\ handlers[h].tool = "screencast_start"
            /\ handlers[h].pc = "rejected"
            /\ handlers[h].lines = <<>>
            /\ IF includes(messageOf(err), "ENOENT") /\ includes(messageOf(err), "ffmpeg")
                 THEN handlers[h].error
                        = Error(<<"ffmpeg is required for screencast recording but was not found. ",
                                  "Install ffmpeg (https://ffmpeg.org/) and ensure it is available in your PATH.">>)
                 ELSE handlers[h].error = err)
  /\ [][\A h \in 1..MaxInvocations :
          (Settles(h) /\ handlers[h].pc = "awaitScreencast"
                      /\ handlers'[h].pc = "rejected") =>
            (~screenRecorder.present /\ ~screenRecorder'.present)]_vars

\* C17 witness: page.screencast rejected with an ENOENT error that does not
\* name ffmpeg, and the invocation rejected with that error.
C17_Witness ==
  \E h \in Invocations :
    /\ RejectedWith("page.screencast", h, EnoentOther)
    /\ handlers[h].pc = "rejected"
    /\ handlers[h].error = EnoentOther
    /\ ~screenRecorder.present

\* C18: a screencast_stop invoked while no recorder is stored returns without
\* a line, without an error and without a call (stop() is called on no
\* recorder), and the step leaves no recorder stored.
C18_StopWithoutRecording ==
  /\ [](\A h \in Invocations :
          (handlers[h].tool = "screencast_stop" /\ ~handlers[h].data.present) =>
            /\ handlers[h].pc = "returned"
            /\ handlers[h].error = None
            /\ handlers[h].lines = <<>>
            /\ CallsOf(h) = <<>>)
  /\ [][\A h \in 1..MaxInvocations :
          (Invoked(h, "screencast_stop") /\ ~screenRecorder.present) =>
            (~screenRecorder'.present /\ calls' = calls)]_vars

\* C18 witness: a screencast_stop after a recording was started and stopped:
\* it found no recorder and returned.
C18_Witness ==
  \E h \in Invocations :
    /\ h = 3
    /\ handlers[h].tool = "screencast_stop"
    /\ ~handlers[h].data.present
    /\ handlers[h].pc = "returned"
    /\ handlers[1].tool = "screencast_start" /\ handlers[1].pc = "returned"
    /\ handlers[2].tool = "screencast_stop" /\ handlers[2].pc = "returned"

\* Position in the log of the first entry for op at position i, 0 if none.
FirstAt(op, i) == IndexOf(log, Call(op, i))

\* Position in the log at which argument i settled, 0 if it has not.
SettledAt(i) ==
  IF FirstAt("threw", i) # 0 THEN FirstAt("threw", i)
  ELSE IF FirstAt("resolved", i) # 0 THEN FirstAt("resolved", i)
  ELSE FirstAt("rejected", i)

\* from() will call the stack constructor: detail flag, devTools, no override.
WantsLiveStack ==
  /\ options.fetchDetailedData /\ options.devTools
  /\ ~options.resolvedStackTraceForTesting.present

\* C19: with enrichment on a console message the stack constructor is invoked
\* together with the argument resolutions: while from() waits for an argument
\* that has not settled, the stack constructor has been invoked already.
C19_StackConcurrentWithArgs ==
  (LiveArgs /\ WantsLiveStack /\ pc = "awaitArgs" /\ pending # {}) =>
    Logged("createStackTraceForConsoleMessage", 0)

\* C19 as amended: the stack constructor is invoked only after every
\* argument's resolution has settled (the arguments are resolved together,
\* the stack after them), and it is invoked once.
C19_StackAfterArgs ==
  (LiveArgs /\ Logged("createStackTraceForConsoleMessage", 0)) =>
    /\ pending = {}
    /\ pc \in {"awaitStack", "done"}
    /\ \A i \in 1..Len(msg.args) :
         /\ SettledAt(i) # 0
         /\ SettledAt(i) < FirstAt("createStackTraceForConsoleMessage", 0)
    /\ Len(SelectSeq(log, LAMBDA c : c.op = "createStackTraceForConsoleMessage")) = 1

\* C19 witness: two arguments, the second settled last, and the stack
\* constructor was invoked right after it.
C19_Witness ==
  /\ LiveArgs /\ WantsLiveStack
  /\ Len(msg.args) = 2
  /\ SettledBefore(1, 2)
  /\ FirstAt("createStackTraceForConsoleMessage", 0) = SettledAt(2) + 1

\* The call that starts argument j's resolution: remoteObject() and then
\* fromError or jsonValue, unless remoteObject() threw.
StartedAt(j) ==
  IF FirstAt("threw", j) # 0 THEN FirstAt("remoteObject", j)
  ELSE IF FirstAt("fromError", j) # 0 THEN FirstAt("fromError", j)
  ELSE FirstAt("jsonValue", j)

\* C20: with enrichment, once from() has reached its first wait every
\* argument's collaborator call has been started, before any asynchronous
\* resolution has completed (resolved or rejected), whichever arguments are
\* slow or fail; and from() goes on (to the stack, to the formatter) only when
\* all n resolutions have settled.
C20_FanOutFanIn ==
  (LiveArgs /\ pc # "start") =>
    /\ \A j \in 1..Len(msg.args) :
         /\ FirstAt("remoteObject", j) # 0
         /\ StartedAt(j) # 0
         /\ \A i \in 1..Len(msg.args) :
              /\ FirstAt("resolved", i) # 0 => StartedAt(j) < FirstAt("resolved", i)
              /\ FirstAt("rejected", i) # 0 => StartedAt(j) < FirstAt("rejected", i)
    /\ pc = "awaitArgs" => ~formatter.present
    /\ pc \in {"awaitStack", "done"} =>
         /\ pending = {}
         /\ \A i \in 1..Len(msg.args) : SettledAt(i) # 0

\* C20 witness: two arguments, the first failed (jsonValue rejected) before
\* the second resolved, and from() has resolved.
C20_Witness ==
  /\ Done /\ LiveArgs
  /\ Len(msg.args) = 2
  /\ Logged("rejected", 1) /\ Logged("resolved", 2)
  /\ SettledBefore(1, 2)
  /\ StartedAt(2) < FirstAt("rejected", 1)

\* C10: from() resolves to a formatter and none of toString(), toJSON(),
\* toStringDetailed() and toJSONDetailed() raises, whatever the collaborators
\* did and whatever stack, cause chain and arguments were resolved.
C10_NeverRaises ==
  /\ Done => formatter.present
  /\ rendering.method # "none" => ~rendering.result.thrown

\* ---- claims about the separator, the order of lines and the sections
\* The banner the claim of C21 describes: 40 columns, the seed, then dashes.
FullWidthBanner(fragment) ==
  LET seed == "--- " \o (IF fragment.hasDescription /\ fragment.description # ""
                           THEN fragment.description ELSE "async") \o " "
  IN seed \o RepeatString("-", 40 - Len(seed))

\* C21: every async fragment with a surviving frame, whatever its description
\* (present, empty, absent, of any length), is rendered with a separator line
\* that is 40 characters long, starts with '--- <description or async> ' and
\* is filled with '-' up to that width.
C21_SeparatorWidth ==
  rPc # "input" =>
    \A k \in 1..Len(rStack.asyncFragments) :
      LET fragment == rStack.asyncFragments[k]
      IN Len(Survivors(fragment.frames, rIgnore)) > 0 =>
           /\ ~rAsync[k].thrown
           /\ Len(rAsync[k].value) > 0
           /\ Len(Head(rAsync[k].value)) = 40
           /\ Head(rAsync[k].value) = FullWidthBanner(fragment)

\* The lines the fragments of a stack are expected to give, in source order.
ExpectedAsync(fragment, check) ==
  IF Len(Survivors(fragment.frames, check)) = 0 THEN <<>>
  ELSE <<FullWidthBanner(fragment)>> \o MapFrames(Survivors(fragment.frames, check))

ExpectedFragments(stackTrace, check) ==
  MapFrames(Survivors(stackTrace.syncFragment.frames, check))
    \o Concat([k \in 1..Len(stackTrace.asyncFragments) |->
                 ExpectedAsync(stackTrace.asyncFragments[k], check)])

Count(lines, l) == Len(SelectSeq(lines, LAMBDA x : x = l))

\* C22: the lines of every rendered stack are, in this order: the surviving
\* synchronous frames in source order; for each async fragment in the given
\* order its separator and its surviving frames in source order; the cause
\* chain's lines, opened by 'Caused by: <message>' and the cause's own
\* surviving frames; these cut at 50 and then '... and N more frames'; and
\* last the note, which occurs exactly once.
C22_LineOrder ==
  (rPc = "rendered" /\ ~rOut.thrown) =>
    LET opening == ExpectedFragments(rStack, rIgnore)
        all == rLines.value
        causes == SubSeq(all, Len(opening) + 1, Len(all))
        out == rOut.value
    IN /\ ~rLines.thrown
       /\ Len(opening) <= Len(all)
       /\ SubSeq(all, 1, Len(opening)) = opening
       /\ IF rCause.present
            THEN LET own == <<"Caused by: " \o rCause.message>>
                              \o OwnFrameLines(rCause, rIgnore)
                 IN /\ Len(own) <= Len(causes)
                    /\ SubSeq(causes, 1, Len(own)) = own
            ELSE causes = <<>>
       /\ IF Len(all) > 50
            THEN out = SubSeq(all, 1, 50) \o <<MoreFramesLine(Len(all) - 50), NOTE_LINE>>
            ELSE out = all \o <<NOTE_LINE>>
       /\ out[Len(out)] = "Note: line and column numbers use 1-based indexing"
       /\ Count(out, "Note: line and column numbers use 1-based indexing") = 1

\* C22 witness: two async fragments with different descriptions after two
\* synchronous frames, and a cause with a frame of its own, all shown.
C22_Witness ==
  /\ rPc = "rendered" /\ ~rOut.thrown
  /\ Len(rStack.syncFragment.frames) = 2
  /\ Len(rStack.asyncFragments) = 2
  /\ rStack.asyncFragments[1].description = "setTimeout"
  /\ rStack.asyncFragments[2].description = "await"
  /\ rCause = SmallCause
  /\ rIgnore = TestingIgnore({})
  /\ Len(rOut.value) = 2 + 2 + 3 + 3 + 1

\* Every frame of the stack, synchronous and asynchronous, is ignored.
AllIgnored(stackTrace, check) ==
  /\ Len(Survivors(stackTrace.syncFragment.frames, check)) = 0
  /\ \A k \in 1..Len(stackTrace.asyncFragments) :
       Len(Survivors(stackTrace.asyncFragments[k].frames, check)) = 0

\* The lines from '### Stack trace' to the end.
StackSection(lines) ==
  IF IndexOf(lines, "### Stack trace") = 0 THEN <<>>
  ELSE SubSeq(lines, IndexOf(lines, "### Stack trace"), Len(lines))

SectionsOf(json) ==
  << <<"ID: " \o ToString(json.id), "Message: " \o json.type \o "> " \o json.text>>,
     IF Len(json.args) = 0 THEN <<>>
     ELSE <<"### Arguments">>
            \o Concat([k \in 1..Len(json.args) |->
                         Prepend("Arg #" \o ToString(k - 1) \o ": ", json.args[k])]),
     IF json.stackTrace.present
       THEN <<"### Stack trace">> \o json.stackTrace.value
       ELSE <<>> >>

\* The non-empty sections one after another, with the lines of between
\* standing between every two consecutive ones.
RECURSIVE JoinSections(_, _)
JoinSections(sections, between) ==
  LET kept == SelectSeq(sections, LAMBDA x : x # <<>>)
  IN IF Len(kept) = 0 THEN <<>>
     ELSE IF Len(kept) = 1 THEN Head(kept)
     ELSE Head(kept) \o between \o JoinSections(Tail(kept), between)

DetailedStringReturned ==
  /\ Done
  /\ rendering.method = "toStringDetailed"
  /\ ~rendering.result.thrown

\* C24: toStringDetailed() is the non-empty sections of toJSONDetailed()
\* (heading, '### Arguments', '### Stack trace') with a blank line between
\* every two consecutive non-empty sections, and nothing for an empty one.
C24_BlankLineBetweenSections ==
  DetailedStringReturned =>
    rendering.result.value
      = JoinSections(SectionsOf(toJSONDetailed(formatter).value), <<"">>)

\* C24 as amended: the non-empty sections follow one another separated by a
\* single line break, with no blank line between them and no line at all for
\* an empty section: the text has no empty line.
C24_SectionsJoinedByLineBreak ==
  DetailedStringReturned =>
    /\ rendering.result.value
         = JoinSections(SectionsOf(toJSONDetailed(formatter).value), <<>>)
    /\ \A i \in 1..Len(rendering.result.value) : rendering.result.value[i] # ""

\* C24 witness: a message with a shown argument and a stack trace: heading,
\* arguments section and stack section on consecutive lines.
C24_Witness ==
  /\ DetailedStringReturned
  /\ ~msg.isUncaught /\ msg.text = "Processing file:"
  /\ Len(getArgs(formatter)) = 2
  /\ formatter.stack = SmallStack
  /\ rendering.result.value[3] = "### Arguments"
  /\ rendering.result.value[6] = "### Stack trace"
  /\ IndexOf(rendering.result.value, "") = 0

\* ---- claims about the recursion over the cause chain (specification SpecCause)
\* The chain ends: its last error has no cause.
Acyclic(errors) == Len(errors) = 0 \/ errors[Len(errors)].cause = 0

EveryErrorHasStack(errors) == \A i \in 1..Len(errors) : errors[i].stackTrace.present

\* The errors formatCause is called with: the chain up to its end, or up to
\* and including the first error without a stack trace.
RECURSIVE VisitedFrom(_, _)
VisitedFrom(errors, i) ==
  IF i > Len(errors) THEN <<>>
  ELSE IF ~errors[i].stackTrace.present THEN <<errors[i]>>
  ELSE <<errors[i]>> \o VisitedFrom(errors, i + 1)

\* The chain as nested values, for a chain that ends.
RECURSIVE Unfold(_, _)
Unfold(errors, i) ==
  IF i > Len(errors) THEN None
  ELSE SymbolizedError(errors[i].message, errors[i].stackTrace, Unfold(errors, i + 1))

\* C25: for a cause chain that ends, whatever its depth, the recursion under
\* formatStackTrace returns; it has then called formatCause once for every
\* error of the chain (up to an error without a stack trace), so no depth cap
\* cut it, and what is returned is all lines gathered, cut at 50 lines only.
\* For a cyclic chain in which every error has a stack trace the recursion
\* never returns: there is always another formatCause call to make.
C25_CauseChainTermination ==
  /\ Acyclic(cErrors) => <>(cPc = "returned")
  /\ []((cPc = "returned" /\ Acyclic(cErrors)) =>
          LET visited == VisitedFrom(cErrors, 1)
              all == MapFrames(cStack.syncFragment.frames)
                       \o Concat([k \in 1..Len(cStack.asyncFragments) |->
                                    ExpectedAsync(cStack.asyncFragments[k], CauseIgnore)])
                       \o CauseLines(visited, CauseIgnore)
          IN /\ cDepth = Len(visited)
             /\ EveryErrorHasStack(cErrors) => cDepth = Len(cErrors)
             /\ cLines = all
             /\ cOut = (IF Len(all) > 50
                          THEN SubSeq(all, 1, 50)
                                 \o <<MoreFramesLine(Len(all) - 50), NOTE_LINE>>
                          ELSE all \o <<NOTE_LINE>>)
             /\ cOut = formatStackTrace(cStack, Unfold(cErrors, 1), CauseIgnore).value)
  /\ (~Acyclic(cErrors) /\ EveryErrorHasStack(cErrors)) =>
       [](/\ cPc # "returned"
          /\ cPc = "formatCause" => cAt \in 1..Len(cErrors))

\* C25 witness: a chain of four errors that ends, each with a stack trace of
\* thirty frames: all four were visited and the lines were cut at 50.
C25_Witness ==
  /\ cPc = "returned"
  /\ Acyclic(cErrors)
  /\ Len(cErrors) = 4
  /\ \A i \in 1..4 : cErrors[i].stackTrace = DeepStack
  /\ cDepth = 4
  /\ Len(cLines) = 4 + 4 * 31
  /\ Len(cOut) = 52

\* C25 witness of the cyclic case: the third error's cause is the first
\* error, and formatCause has been called more often than there are errors.
C25_WitnessCyclic ==
  /\ Len(cErrors) = 3
  /\ cErrors[3].cause = 1
  /\ EveryErrorHasStack(cErrors)
  /\ cPc = "formatCause"
  /\ cDepth = MaxCalls

\* ---- claim about the timeout parameter (specification SpecTimeout)
\* C26: the transform gives undefined for every value <= 0, 0 included, gives
\* every value > 0 unchanged, and gives undefined when the parameter is
\* omitted.
C26_TimeoutTransform ==
  tPc = "transformed" =>
    /\ ~tInput.present => ~tValue.present
    /\ (tInput.present /\ tInput.n <= 0) => ~tValue.present
    /\ (tInput.present /\ tInput.n > 0) => tValue = Present(tInput.n)

\* ---- claim about ignored frames in a detailed rendering (specification Spec)
\* All frames of a stack trace, synchronous then asynchronous.
FramesOf(stackTrace) ==
  IF ~stackTrace.present THEN <<>>
  ELSE stackTrace.syncFragment.frames
         \o Concat([k \in 1..Len(stackTrace.asyncFragments) |->
                      stackTrace.asyncFragments[k].frames])

\* All frames of a stack trace and of every error of its cause chain.
AllFramesOf(stackTrace, cause) ==
  FramesOf(stackTrace)
    \o Concat([i \in 1..Len(Chain(cause)) |-> FramesOf(Chain(cause)[i].stackTrace)])

\* The frames a rendering of the stack shows: below an error whose stack
\* trace is undefined nothing is rendered.
RECURSIVE RenderedFramesOf(_, _, _)
RenderedFramesOf(stackTrace, cause, check) ==
  IF ~stackTrace.present THEN <<>>
  ELSE Survivors(FramesOf(stackTrace), check)
         \o (IF cause.present
               THEN RenderedFramesOf(cause.stackTrace, cause.cause, check)
               ELSE <<>>)

\* The error-valued arguments a detailed rendering shows.
ShownErrors(this) == SelectSeq(getArgs(this), LAMBDA a : a.tag = "error")

\* Every frame the formatter holds: of its stack and cause chain, and of the
\* stack and cause chain of every error-valued argument shown.
HeldFrames(this) ==
  AllFramesOf(this.stack, this.cause)
    \o Concat([k \in 1..Len(ShownErrors(this)) |->
                 AllFramesOf(ShownErrors(this)[k].error.stackTrace,
                             ShownErrors(this)[k].error.cause)])

ShownFrames(this) ==
  RenderedFramesOf(this.stack, this.cause, this.isIgnored)
    \o Concat([k \in 1..Len(ShownErrors(this)) |->
                 RenderedFramesOf(ShownErrors(this)[k].error.stackTrace,
                                  ShownErrors(this)[k].error.cause, this.isIgnored)])

\* The lines of a detailed rendering, string or structured.
DetailedLines(r) ==
  IF r.method = "toStringDetailed" THEN r.result.value
  ELSE Concat(r.result.value.args)
         \o (IF r.result.value.stackTrace.present
               THEN r.result.value.stackTrace.value ELSE <<>>)

\* C27: in a detailed rendering no frame the formatter's predicate ignores has
\* a line, be it a frame of the stack's synchronous or async fragments, of an
\* error of the cause chain, or of the stack or cause chain of an error-valued
\* argument; and every frame that is not ignored and is rendered has exactly
\* one line.
C27_IgnoredFramesNowhere ==
  (Done /\ rendering.method \in {"toStringDetailed", "toJSONDetailed"}
        /\ ~rendering.result.thrown) =>
    LET lines == DetailedLines(rendering)
        held == HeldFrames(formatter)
        shown == ShownFrames(formatter)
    IN /\ \A i \in 1..Len(held) :
            IsIgnored(formatter.isIgnored, held[i]) =>
              Count(lines, formatFrame(held[i])) = 0
       /\ \A i \in 1..Len(shown) :
            Count(lines, formatFrame(shown[i]))
              = Len(SelectSeq(shown, LAMBDA f : formatFrame(f) = formatFrame(shown[i])))

\* C27 witness: a message with a stack and an error-valued argument, both with
\* ignore-listed frames among others; the argument's cause has one too.
C27_Witness ==
  /\ Done /\ ~msg.isUncaught
  /\ rendering.method = "toStringDetailed"
  /\ ~rendering.result.thrown
  /\ formatter.stack = SmallStack
  /\ Len(ShownErrors(formatter)) = 1
  /\ ShownErrors(formatter)[1].error = VendorErrorValue
  /\ formatter.isIgnored = TestingIgnore({VendorUrl})
  /\ Len(HeldFrames(formatter)) = 9
  /\ Len(ShownFrames(formatter)) = 5
  /\ Count(rendering.result.value, "at compute (lib.ts:3:1)") = 1

\* ---- claim about overlapping invocations (specification SpecOverlap)
\* stop() has been called on the recorder.
StopCalledOn(recorder) ==
  \E i \in 1..Len(calls) :
    "recorder" \in DOMAIN calls[i] /\ calls[i].recorder = recorder

\* Invocations whose page.screencast call has not settled.
Recording == {h \in Invocations : handlers[h].pc = "awaitScreencast"}

\* C28: however screencast_start invocations overlap, at most one of them has
\* called page.screencast at any time and none calls it while a recorder is
\* stored or being made, and no step replaces a stored recorder by another
\* one unless stop() has been called on the stored one.
C28_OneRecordingAtATime ==
  /\ [](Cardinality(Recording) <= 1)
  /\ [][(screenRecorder.present /\ screenRecorder'.present
           /\ screenRecorder'.recorder # screenRecorder.recorder)
          => StopCalledOn(screenRecorder.recorder)]_vars

\* ---- claim about sequences of invocations (specification SpecScreencast)
\* Invocation h is a screencast_start that started a recording.
StartedRecording(h) ==
  /\ handlers[h].tool = "screencast_start"
  /\ handlers[h].pc = "returned"
  /\ ~handlers[h].data.present

\* The path given to the page.screencast call of invocation h.
ScreencastPathOf(h) ==
  LET made == SelectSeq(CallsOf(h), LAMBDA c : c.op = "page.screencast")
  IN IF Len(made) = 1 THEN made[1].path ELSE None

\* The recorders stop() has been called on, one entry per call.
StopsOn(recorder) ==
  SelectSeq(calls, LAMBDA c : c.op = "recorder.stop" /\ "recorder" \in DOMAIN c
                               /\ c.recorder = recorder)

\* C29: when every invocation made so far (one after another, each succeeded
\* or failed) has settled, a recorder is stored exactly when the most recent
\* screencast_start that started a recording has no screencast_stop after
\* it; the stored file path is the resolved path given to the page.screencast
\* call of that screencast_start; and at all times stop() has been called at
\* most once on every recorder.
C29_RecorderTracksInvocations ==
  /\ ~Running =>
       LET starts == {h \in Invocations : StartedRecording(h)}
           open == {h \in starts :
                      /\ \A g \in starts : g <= h
                      /\ \A g \in Invocations :
                           g > h => handlers[g].tool # "screencast_stop"}
       IN /\ screenRecorder.present <=> open # {}
          /\ \A h \in open :
               /\ screenRecorder.filePath = ScreencastPathOf(h)
               /\ screenRecorder.filePath.absolute
               /\ screenRecorder.filePath \in
                    {resolve(p) : p \in (ParamsPaths \ {None})}
                      \cup {generateTempFilePath(x) : x \in TempSuffixes}
  /\ \A r \in 1..recorders : Len(StopsOn(r)) <= 1

\* C29 witness: a recording started and its stop failed; a second recording,
\* started with a relative path, is stored with that path resolved.
C29_Witness ==
  /\ ~Running
  /\ Len(handlers) = 3
  /\ StartedRecording(1)
  /\ handlers[2].tool = "screencast_stop" /\ handlers[2].pc = "rejected"
  /\ StartedRecording(3)
  /\ screenRecorder
       = RecorderData(2, Path(TRUE, <<"home", "user", "project", "recordings", "demo.mp4">>))
  /\ Len(StopsOn(1)) = 1 /\ Len(StopsOn(2)) = 0

\* ---- claim about NetworkFormatter.from (specification SpecNetwork)
SettledAs(op, result) ==
  \E i \in 1..Len(nRun.calls) : nRun.calls[i] = [op |-> op, result |-> result]

\* C30: when from() has resolved with fetchData for a request with a response,
\* exactly one of responseBody and responseBodyFilePath is set; with a
\* responseFilePath the path is set (to it) exactly when response.buffer() and
\* saveFile both succeeded, and otherwise responseBody is '<Response body not
\* available anymore>'; without one the body is set. Once the response is
\* being loaded from() never rejects, saveFile missing or not. Without
\* fetchData no body and no file path is set.
C30_ResponseBodyOrFile ==
  /\ (nRun.pc = "resolved" /\ nOptions.fetchData /\ nRequest.hasResponse) =>
       /\ nRun.this.responseBody.present # nRun.this.responseBodyFilePath.present
       /\ IF nOptions.responseFilePath.present /\ nOptions.responseFilePath.value # ""
            THEN /\ nRun.this.responseBodyFilePath.present
                      <=> (/\ nOptions.saveFile
                           /\ SettledAs("response.buffer", "resolved")
                           /\ SettledAs("saveFile response", "resolved"))
                 /\ nRun.this.responseBodyFilePath.present =>
                      nRun.this.responseBodyFilePath = nOptions.responseFilePath
                 /\ ~nRun.this.responseBodyFilePath.present =>
                      nRun.this.responseBody
                        = Present("<Response body not available anymore>")
            ELSE nRun.this.responseBody.present
  /\ nRun.pc = "rejected" =>
       /\ ~SettledAs("response.buffer", "resolved")
       /\ ~SettledAs("response.buffer", "rejected")
       /\ ~SettledAs("saveFile response", "rejected")
  /\ nRun.pc \in {"awaitBufferForFile", "awaitSaveResponse", "awaitBufferForBody"} =>
       ~nRun.error.present
  /\ (nRun.pc = "resolved" /\ ~nOptions.fetchData) =>
       /\ nRun.this = [requestBody |-> None, responseBody |-> None,
                       requestBodyFilePath |-> None, responseBodyFilePath |-> None]
       /\ nRun.calls = <<>>

\* C30 witness: a responseFilePath without saveFile: response.buffer()
\* resolved, nothing was thrown, and the body is the placeholder.
C30_Witness ==
  /\ nRun.pc = "resolved"
  /\ nOptions.fetchData /\ nRequest.hasResponse
  /\ nOptions.responseFilePath = Present("/tmp/body.bin")
  /\ ~nOptions.saveFile
  /\ SettledAs("response.buffer", "resolved")
  /\ nRun.this.responseBody = Present("<Response body not available anymore>")
  /\ ~nRun.this.responseBodyFilePath.present

====
